---- MODULE Spec2Model ----
(***************************************************************************)
(* Model of the flow execution engine of locust-flow.                      *)
(*                                                                         *)
(* Specification Spec: one invocation of FlowExecutor._execute_step on a   *)
(* freshly built executor.  The step description is drawn in Init; every   *)
(* HTTP call answers with a status drawn from Statuses.  The invocation is *)
(* cut at its HTTP calls and at the stages of the pipeline, and `trace'    *)
(* records what ran, in order.                                             *)
(***************************************************************************)
EXTENDS Integers, Sequences, FiniteSets, TLC

\* ------------------------------------------------------------------ bounds

\* largest explicit retry_on.max_retries drawn for the step
MaxRetries == 2
\* longest pre_request list drawn for the step
MaxHooks == 1
\* longest pre_transforms / post_transforms list drawn for the step
MaxTransforms == 1

\* ------------------------------------------------------- program constants

\* retry_config.get('max_retries', 3): bound of a retry rule that gives none
DefaultMaxRetries == 3
\* "... if retry_config else 1": a step without a retry rule
NoRetryAttempts == 1
\* step_result['status_code'] = None; also an absent validate.status_code
NoStatus == 0

\* statuses an HTTP call can answer with
Statuses == {200, 401}

\* the value of an absent context key / an unset result field
Unset == "<unset>"
NoError == [type |-> "None", expected |-> NoStatus, got |-> NoStatus]

\* the ValueError a plugin or the registry raises
PluginError(msg) == [type |-> msg, expected |-> NoStatus, got |-> NoStatus]

\* ------------------------------------------------------------ step shapes

\* transforms: a registered handler that succeeds, a registered handler that
\* raises (lookup on a store entry that does not exist), an unregistered type
TransformTypes == {"random_choice", "lookup", "nosuch"}
Transforms == [type : TransformTypes, output : {"v"}]

\* the plugins PluginRegistry registers by default (those the model draws from)
RegisteredPlugins == {"random_choice", "lookup"}

\* pre_request entries: a step name (string) or an inline step (dict)
NamedHook(n) == [kind |-> "name", name |-> n, validate |-> NoStatus, has_validate |-> FALSE]
InlineHook(hv, s) == [kind |-> "inline", name |-> "Inline Pre-request", validate |-> s, has_validate |-> hv]
PreRequests ==
    {NamedHook("Login"), NamedHook("Missing"), InlineHook(FALSE, NoStatus), InlineHook(TRUE, 200)}

NoRetryOn ==
    [present |-> FALSE, condition |-> "equals", right |-> NoStatus,
     action |-> "", has_max_retries |-> FALSE, max_retries |-> 0]
RetryRules ==
    {[present |-> TRUE, condition |-> "equals", right |-> 401,
      action |-> a, has_max_retries |-> FALSE, max_retries |-> 0] :
        a \in {"", "Login", "Missing"}}
    \cup
    {[present |-> TRUE, condition |-> "equals", right |-> 401,
      action |-> a, has_max_retries |-> TRUE, max_retries |-> n] :
        a \in {"", "Login", "Missing"}, n \in 0..MaxRetries}

NoSkipIf == [present |-> FALSE, condition |-> "equals", left |-> "v", right |-> ""]
SkipIfV == [present |-> TRUE, condition |-> "equals", left |-> "v", right |-> "u"]

SeqsUpTo(S, n) == UNION {[1..k -> S] : k \in 0..n}

\* the step of config['init'] that hooks and retry actions name
LoginStep ==
    [name |-> "Login", validate |-> 200, has_extract |-> FALSE]

\* the steps the invocation is drawn from
MainSteps ==
    [name : {"Transfer"},
     pre_request : SeqsUpTo(PreRequests, MaxHooks),
     pre_transforms : SeqsUpTo(Transforms, MaxTransforms),
     skip_if : {NoSkipIf, SkipIfV},
     retry_on : {NoRetryOn} \cup RetryRules,
     validate : {NoStatus, 200},
     has_extract : {TRUE},
     post_transforms : SeqsUpTo(Transforms, MaxTransforms)]

VARIABLES
    step,          \* the step description handed to _execute_step
    pc,            \* position of the invocation in the pipeline
    hook,          \* index of the next pre_request entry
    retry_count,   \* retry_count of _execute_http_step
    response,      \* local `response' of _execute_http_step (NoStatus: unbound)
    context,       \* FlowExecutor.context
    step_result,   \* the dict _execute_step returns
    trace          \* what ran so far, in order

\* the state of one validation or extraction of a response (SpecResp)
VARIABLES
    rmode,         \* what is applied to the response: "validate" or "extract"
    rpc,           \* "start" before the call, "done" after it
    resp,          \* the requests.Response handed over
    rvalidate,     \* step['validate'], a list of entries
    rextract,      \* step['extract'], variable -> path, in dict order
    rctx,          \* FlowExecutor.context
    rout           \* what _validate_response did: returned or raised

\* the start-up of the actors of one user class (SpecInit)
VARIABLES
    config,          \* the configuration file every actor loads
    upc,             \* actor -> position in on_start / execute_flow
    init_lock,       \* ConfigDrivenUser._init_lock: 0 or the actor holding it
    init_completed,  \* ConfigDrivenUser._init_completed
    shared_context,  \* ConfigDrivenUser._shared_context
    cfg_list,        \* actor -> the list object of its own config's variables
    executor,        \* actor -> context of the executor it runs init steps on
    cursor,          \* actor -> identifier and init step it is at
    user_context,    \* actor -> self.flow_executor.context
    heap,            \* the list objects, by reference
    init_log,        \* the init steps executed in shared initialization
    mutations        \* actor -> context mutations made by its flow

\* threads calling the Shared Data Store (SpecStore, SpecLookup)
VARIABLES
    store_data,      \* SharedDataStore._data: identifier -> bag
    store_lock,      \* SharedDataStore._lock: 0 or the thread holding it
    committed,       \* the store as the completed calls leave it
    tpc,             \* thread -> position inside the call it is making
    call,            \* thread -> the call it is making
    result,          \* the call completed last: by whom, which, what it returned
    held,            \* the bag the last get handed out, and to whom
    calls            \* calls made so far, by all threads

VARIABLES
    plugin_config,         \* the transform entry the callers execute
    round_robin_counters,  \* SelectFromListPlugin._round_robin_counters
    counter_lock,          \* SelectFromListPlugin._counter_lock: 0 or its holder
    counters,              \* IncrementPlugin._counters
    worker,                \* caller -> position in execute and its locals
    returned               \* counter key -> what the calls on it returned, in order

VARIABLES
    flow_config,     \* the entry point called and the "steps" of the configuration
    step_index,      \* the step the loop of execute_flow is at, from 1
    draw,            \* what random.random() returned last, in quarters
    executed,        \* what became of each step the loop reached
    stopped          \* the loop was left by break

VARIABLES
    evaluation,      \* what is evaluated: a retry_on rule or a template
    render_context,  \* the context handed to the template engine
    retry_signal,    \* what _should_retry_step returned, "unset" before
    skip_signal,     \* what _should_skip_step returned, "unset" before
    renders          \* what render returned, call after call

stepVars == <<step, pc, hook, retry_count, response, context, step_result, trace>>
respVars == <<rmode, rpc, resp, rvalidate, rextract, rctx, rout>>

initVars == <<config, upc, init_lock, init_completed, shared_context, cfg_list,
              executor, cursor, user_context, heap, init_log, mutations>>

storeVars == <<store_data, store_lock, committed, tpc, call, result, held, calls>>

counterVars == <<plugin_config, round_robin_counters, counter_lock, counters,
                 worker, returned>>

flowVars == <<flow_config, step_index, draw, executed, stopped>>

evalVars == <<evaluation, render_context, retry_signal, skip_signal, renders>>

vars == <<stepVars, respVars, initVars, storeVars, counterVars, flowVars, evalVars>>

\* what an action of one specification leaves alone
otherThanStep == <<respVars, initVars, storeVars, counterVars, flowVars, evalVars>>
otherThanResp == <<stepVars, initVars, storeVars, counterVars, flowVars, evalVars>>
otherThanInit == <<stepVars, respVars, storeVars, counterVars, flowVars, evalVars>>
otherThanStore == <<stepVars, respVars, initVars, counterVars, flowVars, evalVars>>
otherThanCounter == <<stepVars, respVars, initVars, storeVars, flowVars, evalVars>>
otherThanFlow == <<stepVars, respVars, initVars, storeVars, counterVars, evalVars>>

otherThanEval == <<stepVars, respVars, initVars, storeVars, counterVars, flowVars>>

\* nothing is being evaluated
EvalIdle ==
    /\ evaluation = <<>>
    /\ render_context = <<>>
    /\ retry_signal = "unset"
    /\ skip_signal = "unset"
    /\ renders = <<>>

\* no iteration is running
FlowIdle ==
    /\ flow_config = <<>>
    /\ step_index = 0
    /\ draw = 0
    /\ executed = <<>>
    /\ stopped = FALSE

\* no caller is inside a generator plugin
CounterIdle ==
    /\ plugin_config = <<>>
    /\ round_robin_counters = <<>>
    /\ counter_lock = 0
    /\ counters = <<>>
    /\ worker = <<>>
    /\ returned = <<>>

\* no thread is calling the store
StoreIdle ==
    /\ store_data = <<>>
    /\ store_lock = 0
    /\ committed = <<>>
    /\ tpc = <<>>
    /\ call = <<>>
    /\ result = <<>>
    /\ held = <<>>
    /\ calls = 0

\* no actor is starting
InitIdle ==
    /\ config = <<>>
    /\ upc = <<>>
    /\ init_lock = 0
    /\ init_completed = FALSE
    /\ shared_context = <<>>
    /\ cfg_list = <<>>
    /\ executor = <<>>
    /\ cursor = <<>>
    /\ user_context = <<>>
    /\ heap = <<>>
    /\ init_log = <<>>
    /\ mutations = <<>>

\* no response is being validated or extracted from
RespIdle ==
    /\ rmode = "idle"
    /\ rpc = "done"
    /\ resp = <<>>
    /\ rvalidate = <<>>
    /\ rextract = <<>>
    /\ rctx = <<>>
    /\ rout = "none"

\* no step is being executed
StepIdle ==
    /\ step = LoginStep
    /\ pc = "done"
    /\ hook = 1
    /\ retry_count = 0
    /\ response = NoStatus
    /\ context = <<>>
    /\ step_result = <<>>
    /\ trace = <<>>

\* --------------------------------------------------------------- helpers

\* TemplateEngine._resolve_variable on a simple name: the value, or the
\* placeholder with its inner whitespace removed
ResolveVariable(name, ctx) ==
    IF ctx[name] # Unset THEN ctx[name] ELSE "{{" \o name \o "}}"

\* FlowExecutor._find_step_by_name: init steps first, then main steps
StepNames == {"Login", "Transfer"}
FindStepByName(n) == n \in StepNames

\* FlowExecutor._validate_response, legacy status_code check:
\* NoError when met, the AssertionError otherwise
ValidateResponse(expected, status) ==
    IF expected # NoStatus /\ status # expected
    THEN [type |-> "AssertionError", expected |-> expected, got |-> status]
    ELSE NoError

\* PluginRegistry.execute_plugin: the handler's result, or the exception
ExecutePlugin(type, ctx) ==
    IF type \notin RegisteredPlugins
    THEN [ok |-> FALSE, value |-> Unset, error |-> PluginError("Plugin not found")]
    ELSE IF type = "lookup"
    THEN \* LookupPlugin.execute: the store of a fresh executor holds no entry
         [ok |-> FALSE, value |-> Unset, error |-> PluginError("No data found in store")]
    ELSE \* RandomChoicePlugin.execute over choices ["u"]
         [ok |-> TRUE, value |-> "u", error |-> NoError]

\* a transform list whose failure escapes the loop: the first failing
\* transform ends the list and the exception reaches the caller
RECURSIVE ApplyTransforms_Raises(_, _)
ApplyTransforms_Raises(ts, ctx) ==
    IF ts = <<>> THEN [context |-> ctx, error |-> NoError]
    ELSE LET t == Head(ts)
             r == ExecutePlugin(t.type, ctx)
         IN IF r.ok
            THEN ApplyTransforms_Raises(Tail(ts), [ctx EXCEPT ![t.output] = r.value])
            ELSE [context |-> ctx, error |-> r.error]

\* FlowExecutor._apply_transforms: the context after the whole list, and the
\* exception that leaves the method (none: the except clause inside the loop
\* logs every failure of execute_plugin and goes on with the next transform)
RECURSIVE ApplyTransforms(_, _)
ApplyTransforms(ts, ctx) ==
    IF ts = <<>> THEN [context |-> ctx, error |-> NoError]
    ELSE LET t == Head(ts)
             r == ExecutePlugin(t.type, ctx)
         IN ApplyTransforms(Tail(ts),
                IF r.ok THEN [ctx EXCEPT ![t.output] = r.value] ELSE ctx)

\* the skip rule read the wrong way round
ShouldSkipStep_Inverted(s, ctx) ==
    /\ s.skip_if.present
    /\ s.skip_if.condition = "equals"
    /\ ResolveVariable(s.skip_if.left, ctx) # s.skip_if.right

\* FlowExecutor._should_skip_step
ShouldSkipStep(s, ctx) ==
    /\ s.skip_if.present
    /\ s.skip_if.condition = "equals"
    /\ ResolveVariable(s.skip_if.left, ctx) = s.skip_if.right

\* FlowExecutor._evaluate_single_condition on a rendered status
EvaluateSingleCondition(cond, left, right) ==
    CASE cond = "equals" -> left = right
      [] cond = "not_equals" -> left # right
      [] OTHER -> FALSE

\* FlowExecutor._should_retry_step with left "{{ response.status_code }}"
ShouldRetryStep(s, status) ==
    /\ s.retry_on.present
    /\ EvaluateSingleCondition(s.retry_on.condition, status, s.retry_on.right)

\* max_retries read as the number of extra retries after the first attempt
MaxRetriesOf_ExtraRetries(s) ==
    IF s.retry_on.present
    THEN (IF s.retry_on.has_max_retries THEN s.retry_on.max_retries ELSE DefaultMaxRetries) + 1
    ELSE NoRetryAttempts

\* a retry rule without max_retries given one attempt more than the default
MaxRetriesOf_LongDefault(s) ==
    IF s.retry_on.present
    THEN (IF s.retry_on.has_max_retries THEN s.retry_on.max_retries
          ELSE DefaultMaxRetries + 1)
    ELSE NoRetryAttempts

\* max_retries of _execute_http_step
MaxRetriesOf(s) ==
    IF s.retry_on.present
    THEN (IF s.retry_on.has_max_retries THEN s.retry_on.max_retries ELSE DefaultMaxRetries)
    ELSE NoRetryAttempts

\* a request that leaves the context as it was
MakeRequest_NoRecord(status, ctx) == ctx

\* FlowExecutor._make_request: the context once the call has returned
MakeRequest(status, ctx) == [ctx EXCEPT !.last_response = status]

\* FlowExecutor._extract_variables for extract = {code: "status_code"}
ExtractVariables(has_extract, status, ctx) ==
    IF has_extract THEN [ctx EXCEPT !.code = status] ELSE ctx

\* the loop giving up one attempt early
AfterAttempt_StopsEarly(s, retry, count) ==
    IF retry /\ count < MaxRetriesOf(s) - 1
    THEN (IF s.retry_on.action # "" /\ FindStepByName(s.retry_on.action)
          THEN "action" ELSE "attempt")
    ELSE "validate"

\* the branch taken once an attempt's response is in: where the loop goes
\* when _should_retry_step answered `retry' and retry_count became `count'
AfterAttempt(s, retry, count) ==
    IF retry /\ count < MaxRetriesOf(s)
    THEN (IF s.retry_on.action # "" /\ FindStepByName(s.retry_on.action)
          THEN "action" ELSE "attempt")
    ELSE "validate"

\* the status recorded for the first attempt only
RecordStatus_FirstOnly(res, status) ==
    IF res.status_code = NoStatus THEN [res EXCEPT !.status_code = status] ELSE res

\* step_result['status_code'] = response.status_code
RecordStatus(res, status) == [res EXCEPT !.status_code = status]

\* one entry of the history: what ran, for which step, the status the call
\* answered with and the status_code its validation expects (NoStatus: none)
Event(k, n, st, exp) == [kind |-> k, step |-> n, status |-> st, expected |-> exp]

\* an except clause that only logs
Failed_Swallowed(res, err) == res

\* the except clause of _execute_step
Failed(res, err) == [res EXCEPT !.success = FALSE, !.error = err]

\* ------------------------------------------------------------------ Init

Init ==
    /\ step \in MainSteps
    /\ pc = IF step.pre_request = <<>> THEN "pre_transforms" ELSE "pre_request"
    /\ hook = 1
    /\ retry_count = 0
    /\ response = NoStatus
    /\ context = [v |-> Unset, code |-> NoStatus, last_response |-> NoStatus, response |-> NoStatus]
    /\ step_result = [name |-> step.name, success |-> TRUE, status_code |-> NoStatus,
                      error |-> NoError, skipped |-> FALSE]
    /\ trace = <<>>
    /\ RespIdle
    /\ InitIdle
    /\ StoreIdle
    /\ CounterIdle
    /\ FlowIdle
    /\ EvalIdle

\* --------------------------------------------------------------- actions

\* one entry of _execute_pre_requests: resolve it, call it, extract, validate
ExecutePreRequest ==
    /\ pc = "pre_request"
    /\ hook <= Len(step.pre_request)
    /\ LET h == step.pre_request[hook]
           last == hook = Len(step.pre_request)
           next_pc == IF last THEN "pre_transforms" ELSE "pre_request"
       IN IF h.kind = "name" /\ ~FindStepByName(h.name)
          THEN \* logging.warning: not found, the entry is passed over
               /\ pc' = next_pc
               /\ hook' = hook + 1
               /\ UNCHANGED <<context, step_result, trace>>
          ELSE \E status \in Statuses :
               LET expected == IF h.kind = "name" THEN LoginStep.validate
                               ELSE IF h.has_validate THEN h.validate ELSE NoStatus
                   err == ValidateResponse(expected, status)
               IN /\ context' = MakeRequest(status, context)
                  /\ trace' = Append(trace, Event("pre_request", h.name, status, expected))
                  /\ hook' = hook + 1
                  /\ IF err # NoError
                     THEN /\ step_result' = Failed(step_result, err)
                          /\ pc' = "done"
                     ELSE /\ step_result' = step_result
                          /\ pc' = next_pc
    /\ UNCHANGED <<step, retry_count, response>>
    /\ UNCHANGED otherThanStep

\* self._apply_transforms(step.get('pre_transforms', []))
ApplyPreTransforms ==
    /\ pc = "pre_transforms"
    /\ LET r == ApplyTransforms(step.pre_transforms, context)
       IN /\ context' = r.context
          /\ IF r.error # NoError
             THEN /\ step_result' = Failed(step_result, r.error)
                  /\ pc' = "done"
             ELSE /\ step_result' = step_result
                  /\ pc' = "skip_check"
    /\ trace' = Append(trace, Event("pre_transforms", step.name, NoStatus, NoStatus))
    /\ UNCHANGED <<step, hook, retry_count, response>>
    /\ UNCHANGED otherThanStep

\* if self._should_skip_step(step): ... return step_result
SkipCheck ==
    /\ pc = "skip_check"
    /\ trace' = Append(trace, Event("skip_check", step.name, NoStatus, NoStatus))
    /\ IF ShouldSkipStep(step, context)
       THEN /\ step_result' = [step_result EXCEPT !.skipped = TRUE]
            /\ pc' = "done"
       ELSE /\ step_result' = step_result
            /\ pc' = IF retry_count < MaxRetriesOf(step) THEN "attempt" ELSE "validate"
    /\ UNCHANGED <<step, hook, retry_count, response, context>>
    /\ UNCHANGED otherThanStep

\* one iteration of the while loop of _execute_http_step, up to the action
Attempt ==
    /\ pc = "attempt"
    /\ retry_count < MaxRetriesOf(step)
    /\ \E status \in Statuses :
        LET retry == ShouldRetryStep(step, status)
            ctx1 == ExtractVariables(step.has_extract, status, MakeRequest(status, context))
            count == IF retry THEN retry_count + 1 ELSE retry_count
        IN /\ response' = status
           /\ step_result' = RecordStatus(step_result, status)
           /\ context' = IF step.retry_on.present
                         THEN [ctx1 EXCEPT !.response = status] ELSE ctx1
           /\ trace' = Append(trace, Event("attempt", step.name, status, NoStatus))
           /\ retry_count' = count
           /\ pc' = AfterAttempt(step, retry, count)
    /\ UNCHANGED <<step, hook>>
    /\ UNCHANGED otherThanStep

\* the action step of a retry rule: call it, extract, validate
RetryAction ==
    /\ pc = "action"
    /\ \E status \in Statuses :
        LET err == ValidateResponse(LoginStep.validate, status)
        IN /\ context' = ExtractVariables(LoginStep.has_extract, status,
                                          MakeRequest(status, context))
           /\ trace' = Append(trace, Event("action", step.retry_on.action, status, LoginStep.validate))
           /\ IF err # NoError
              THEN /\ step_result' = Failed(step_result, err)
                   /\ pc' = "done"
              ELSE /\ step_result' = step_result
                   /\ pc' = "attempt"
    /\ UNCHANGED <<step, hook, retry_count, response>>
    /\ UNCHANGED otherThanStep

\* self._validate_response(step, response), the last line of _execute_http_step
ValidateFinal ==
    /\ pc = "validate"
    /\ IF response = NoStatus
       THEN \* the loop body never ran: `response' is unbound and reading it
            \* raises before _validate_response is entered
            /\ step_result' = Failed(step_result,
                   [type |-> "UnboundLocalError", expected |-> NoStatus, got |-> NoStatus])
            /\ pc' = "done"
            /\ trace' = trace
       ELSE LET err == ValidateResponse(step.validate, response)
            IN /\ trace' = Append(trace,
                                Event("validate", step.name, response, step.validate))
               /\ IF err # NoError
                  THEN /\ step_result' = Failed(step_result, err)
                       /\ pc' = "done"
                  ELSE /\ step_result' = step_result
                       /\ pc' = "post_transforms"
    /\ UNCHANGED <<step, hook, retry_count, response, context>>
    /\ UNCHANGED otherThanStep

\* self._apply_transforms(step.get('post_transforms', [])); return step_result
ApplyPostTransforms ==
    /\ pc = "post_transforms"
    /\ LET r == ApplyTransforms(step.post_transforms, context)
       IN /\ context' = r.context
          /\ step_result' = IF r.error # NoError THEN Failed(step_result, r.error)
                            ELSE step_result
    /\ trace' = Append(trace, Event("post_transforms", step.name, NoStatus, NoStatus))
    /\ pc' = "done"
    /\ UNCHANGED <<step, hook, retry_count, response>>
    /\ UNCHANGED otherThanStep

Next ==
    \/ ExecutePreRequest
    \/ ApplyPreTransforms
    \/ SkipCheck
    \/ Attempt
    \/ RetryAction
    \/ ValidateFinal
    \/ ApplyPostTransforms

Spec == Init /\ [][Next]_vars

TypeOK ==
    /\ step \in MainSteps
    /\ pc \in {"pre_request", "pre_transforms", "skip_check", "attempt", "action",
               "validate", "post_transforms", "done"}
    /\ retry_count \in 0..DefaultMaxRetries + MaxRetries
    /\ response \in Statuses \cup {NoStatus}

\* ------------------------------------------------- reading the history

Indices(k) == {i \in DOMAIN trace : trace[i].kind = k}
NumAttempts == Cardinality(Indices("attempt"))
NumActions == Cardinality(Indices("action"))
IsLoopEvent(e) == e.kind \in {"attempt", "action"}
\* the attempts and action calls of the retry loop, in order
LoopEvents == SelectSeq(trace, IsLoopEvent)
\* the retry condition of the rule, on the status of one attempt
RetryHolds(status) == step.retry_on.present /\ status = step.retry_on.right
\* N of the retry rule
RuleBound ==
    IF step.retry_on.has_max_retries THEN step.retry_on.max_retries ELSE 3
\* the loop has been left in the regular way: validation of the step is due or done
LoopLeft == pc = "validate" \/ Indices("validate") # {}
\* attempts and action calls alternate, first and last an attempt
Alternates(L) ==
    /\ Len(L) % 2 = 1
    /\ \A i \in 1..Len(L) : L[i].kind = (IF i % 2 = 1 THEN "attempt" ELSE "action")
LastEventIs(k) == Len(trace) >= 1 /\ trace[Len(trace)].kind = k
HasFailing(ts) == \E i \in DOMAIN ts : ts[i].type \in {"lookup", "nosuch"}
HasWorking(ts) == \E i \in DOMAIN ts : ts[i].type = "random_choice"
\* the response of a hook or action call does not meet its own validation
CallFailed(e) == e.expected # NoStatus /\ e.status # e.expected

\* ---------------------------------------------------------------- claims

\* C1: a step whose retry rule gives max_retries N >= 1 never makes more than
\* N attempts on its own endpoint in one invocation, whatever the responses.
C1_AttemptsBounded ==
    (step.retry_on.present /\ step.retry_on.has_max_retries
        /\ step.retry_on.max_retries >= 1)
    => NumAttempts <= step.retry_on.max_retries

\* the bound is reached: N attempts, all answered with the retry status
C1_Witness ==
    /\ pc = "done"
    /\ step.retry_on.present /\ step.retry_on.has_max_retries
    /\ step.retry_on.max_retries = MaxRetries
    /\ NumAttempts = MaxRetries

\* C2: with a retry rule naming the action Login, once an attempt k <= N is
\* answered with a status that does not satisfy the retry condition, it is the
\* last attempt: the loop made k attempts, all earlier ones satisfying the
\* condition, k-1 Login calls each between two consecutive attempts, and the
\* reported status is that of attempt k.
C2_RetryUntilConditionFails ==
    LET L == LoopEvents
    IN \A k \in 1..Len(L) :
        (/\ step.retry_on.present
         /\ step.retry_on.action = "Login"
         /\ L[k].kind = "attempt"
         /\ ~RetryHolds(L[k].status))
        => /\ k = Len(L)
           /\ Alternates(L)
           /\ \A i \in 1..(k - 1) :
                /\ L[i].kind = "attempt" => RetryHolds(L[i].status)
                /\ L[i].kind = "action" => L[i].step = "Login"
           /\ NumAttempts <= RuleBound
           /\ NumActions = NumAttempts - 1
           /\ step_result.status_code = L[k].status
           /\ pc \notin {"attempt", "action"}

\* 401, Login, 200 with max_retries 2: two attempts, one Login call, status 200
C2_Witness ==
    LET L == LoopEvents
    IN /\ pc = "done"
       /\ step.retry_on.has_max_retries /\ step.retry_on.max_retries = 2
       /\ step.retry_on.action = "Login"
       /\ Len(L) = 3
       /\ L[1].status = 401 /\ L[2].kind = "action" /\ L[3].status = 200
       /\ step_result.status_code = 200
       /\ step_result.success

C5_PostTransformsBeforeValidation ==
    \A i \in Indices("validate") :
        \E j \in Indices("post_transforms") : j < i

\* C6: a step whose skip_if holds at the skip check is marked skipped, and a
\* skipped step is over with success = true, no attempt, no action call, no
\* extraction, no validation and no post-transforms.
C6_SkipTerminates ==
    /\ (LastEventIs("skip_check") /\ step.skip_if.present
            /\ context.v = step.skip_if.right)
       => step_result.skipped
    /\ step_result.skipped
       => /\ pc = "done"
          /\ step_result.success
          /\ step_result.error = NoError
          /\ step_result.status_code = NoStatus
          /\ LastEventIs("skip_check")
          /\ Indices("attempt") \cup Indices("action") \cup Indices("validate")
                \cup Indices("post_transforms") = {}
          /\ context.code = NoStatus
          /\ response = NoStatus

\* a step skipped because its pre-transform set the variable skip_if tests
C6_Witness ==
    /\ step_result.skipped
    /\ step.skip_if.present
    /\ HasWorking(step.pre_transforms)
    /\ pc = "done"

\* C7: without a retry rule the loop makes one attempt, whatever the status;
\* with a retry rule that gives no max_retries it makes at most 3.
C7_DefaultBounds ==
    /\ ~step.retry_on.present
       => /\ NumAttempts <= 1
          /\ LoopLeft => NumAttempts = 1
    /\ (step.retry_on.present /\ ~step.retry_on.has_max_retries)
       => NumAttempts <= 3

\* a rule without max_retries exhausted after three attempts
C7_Witness ==
    /\ pc = "done"
    /\ step.retry_on.present /\ ~step.retry_on.has_max_retries
    /\ NumAttempts = 3

\* C8: when a pre-hook's response failed the hook's own validation, the outer
\* step still ran its pre-transforms and skip check and, unless skipped, its
\* own HTTP call, and its result is not a failure carrying the hook's error.
C8_PreHookFailureContained ==
    \A i \in Indices("pre_request") :
        (pc = "done" /\ CallFailed(trace[i]))
        => /\ Indices("pre_transforms") # {}
           /\ Indices("skip_check") # {}
           /\ step_result.skipped \/ NumAttempts >= 1
           /\ step_result.error #
                [type |-> "AssertionError", expected |-> trace[i].expected,
                 got |-> trace[i].status]

\* C9: when a retry action's response failed the action step's validation, the
\* loop went on with its next attempt, and the result of the step is decided
\* by the step's own final response alone.
C9_ActionFailureContained ==
    \A i \in Indices("action") :
        (pc = "done" /\ CallFailed(trace[i]))
        => /\ \E j \in Indices("attempt") : j > i
           /\ step_result.success =
                (step.validate = NoStatus \/ response = step.validate)

\* C10 as stated: a step that has applied a transform list holding a failing
\* transform has success = false.
C10_TransformFailurePropagates ==
    /\ (Indices("pre_transforms") # {} /\ HasFailing(step.pre_transforms))
       => step_result.success = FALSE
    /\ (Indices("post_transforms") # {} /\ HasFailing(step.post_transforms))
       => step_result.success = FALSE

\* C10 amended: a failing transform is caught inside the transform loop: its
\* output variable is not written and the step result is not made a failure;
\* right after a list has been applied the result is still a success and the
\* output variable holds what the working transforms wrote, if any.
C10_TransformFailureContained ==
    /\ LastEventIs("pre_transforms")
       => /\ step_result.success /\ step_result.error = NoError
          /\ pc = "skip_check"
          /\ context.v = (IF HasWorking(step.pre_transforms) THEN "u" ELSE Unset)
    /\ LastEventIs("post_transforms")
       => /\ step_result.success /\ step_result.error = NoError
          /\ pc = "done"
          /\ context.v = (IF HasWorking(step.pre_transforms)
                             \/ HasWorking(step.post_transforms)
                          THEN "u" ELSE Unset)

\* a step that went on past a pre-transform that raised
C10_Witness ==
    /\ HasFailing(step.pre_transforms)
    /\ ~HasWorking(step.pre_transforms)
    /\ NumAttempts >= 1
    /\ pc = "done"
    /\ step_result.success
    /\ context.v = Unset

IsHttpEvent(e) == e.kind \in {"pre_request", "attempt", "action"}
\* the HTTP calls made so far, in order
HttpEvents == SelectSeq(trace, IsHttpEvent)

\* C12: context.last_response always describes the HTTP call that returned
\* last (step attempt, pre-hook or retry action); when the final response is
\* validated and when the post-transforms run, that call is the step's own
\* final attempt.
C12_LastResponseRecorded ==
    LET H == HttpEvents
    IN /\ H # <<>> => context.last_response = H[Len(H)].status
       /\ H = <<>> => context.last_response = NoStatus
       /\ (LoopLeft /\ response # NoStatus)
          => /\ H[Len(H)].kind = "attempt"
             /\ H[Len(H)].step = step.name
             /\ context.last_response = response
             /\ \A i \in Indices("validate") : trace[i].status = context.last_response

\* post-transforms about to run after a pre-hook, a retried attempt and a
\* Login call: last_response is the final attempt's
C12_Witness ==
    /\ pc = "post_transforms"
    /\ Indices("pre_request") # {}
    /\ NumActions >= 1
    /\ HttpEvents[1].status # response
    /\ context.last_response = response

\* C37: every step invocation that is not skipped issues at least one HTTP
\* call on the step's own endpoint and validates a response it received,
\* for every max_retries the config validator accepts, 0 included.
C37_CallsAndValidates ==
    (pc = "done" /\ ~step_result.skipped)
    => /\ NumAttempts >= 1
       /\ Indices("validate") # {}

\* ===================================================================
\* SpecResp: one response handed to _validate_response or to
\* _extract_variables.
\* ===================================================================

\* ------------------------------------------------------------- bounds
MaxValidate == 2          \* longest validate list
MaxExtract == 2           \* most entries of an extract mapping

\* -------------------------------------------------------- JSON values
\* A value is a record tagged by its Python type; None is a value.
JNone == [t |-> "none"]
JStr(s) == [t |-> "str", s |-> s]
JInt(n) == [t |-> "int", n |-> n]
JDict(kv) == [t |-> "dict", kv |-> kv]
JList(xs) == [t |-> "list", xs |-> xs]
\* a body for which response.json() raises
NotJson == [t |-> "notjson"]
\* a context key that is not present
JAbsent == [t |-> "absent"]

Bodies ==
    { NotJson,
      JDict([other |-> JStr("x")]),
      JDict([responseMap |-> JDict([status |-> JStr("SUCCESS")]),
             items |-> JList(<<JStr("a")>>)]),
      JDict([responseMap |-> JDict([status |-> JStr("FAILED")])]),
      JDict([responseMap |-> JDict([code |-> JStr("0")])]),
      JDict([responseMap |-> JStr("SUCCESS")]) }

RespStatuses == {200, 404}
Elapsed == {500, 1500}
ResponseHeaders == [XId |-> JStr("h1")]

Responses ==
    [status_code : RespStatuses, body : Bodies, elapsed : Elapsed,
     headers : {ResponseHeaders}]

Digits == {"0", "1"}
DigitVal(d) == IF d = "0" THEN 0 ELSE 1

\* str() of the values the conditions compare
Str(v) ==
    CASE v.t = "str" -> v.s
      [] v.t = "int" -> (CASE v.n = 200 -> "200" [] v.n = 404 -> "404" [] OTHER -> "?")
      [] v.t = "none" -> "None"
      [] OTHER -> "<object>"

\* ---------------------------------------------------------- extraction
DictGet(kv, k) == IF k \in DOMAIN kv THEN kv[k] ELSE JNone

RECURSIVE Walk(_, _)
Walk(data, parts) ==
    IF parts = <<>> THEN data
    ELSE LET part == Head(parts)
         IN IF data.t = "dict"
            THEN Walk(DictGet(data.kv, part), Tail(parts))
            ELSE IF data.t = "list" /\ part \in Digits
            THEN Walk(IF DigitVal(part) < Len(data.xs)
                      THEN data.xs[DigitVal(part) + 1] ELSE JNone,
                      Tail(parts))
            ELSE JNone

ExtractJsonValue(r, parts) ==
    IF r.body.t = "notjson" THEN JNone
    ELSE IF parts = <<>> THEN r.body
    ELSE Walk(r.body, parts)

\* a path string, split at its prefix: kind is what the string starts
\* with, parts the dotted rest
StrPath(kind, parts) == [form |-> "str", kind |-> kind, parts |-> parts]
\* the mapping form {type, path}
DictPath(kind, parts) == [form |-> "dict", kind |-> kind, parts |-> parts]

HeaderGet(r, parts) ==
    IF parts # <<>> /\ Head(parts) \in DOMAIN r.headers
    THEN r.headers[Head(parts)] ELSE JNone

ExtractValue(r, path) ==
    CASE path.kind = "json" -> ExtractJsonValue(r, path.parts)
      [] path.kind = "header" -> HeaderGet(r, path.parts)
      [] path.kind = "status_code" -> JInt(r.status_code)
      [] OTHER -> JNone

ExtractConfigValue(r, path) ==
    IF path.form = "str" THEN ExtractValue(r, path)
    ELSE CASE path.kind = "json" -> ExtractJsonValue(r, path.parts)
           [] path.kind = "header" -> HeaderGet(r, path.parts)
           [] OTHER -> JNone

ExtractVars == {"a", "b"}

ExtractPaths ==
    { StrPath("json", <<"responseMap", "status">>),
      StrPath("json", <<"items", "0">>),
      StrPath("json", <<"items", "1">>),
      StrPath("json", <<"token">>),
      StrPath("header", <<"XId">>),
      StrPath("header", <<"Missing">>),
      StrPath("status_code", <<>>),
      StrPath("bogus", <<>>),
      DictPath("json", <<"responseMap", "status">>),
      DictPath("header", <<"XId">>),
      DictPath("xml", <<"responseMap">>) }

ExtractEntries == [var : ExtractVars, path : ExtractPaths]

\* a mapping has each variable once
Extracts ==
    { e \in SeqsUpTo(ExtractEntries, MaxExtract) :
        \A i, j \in 1..Len(e) : e[i].var = e[j].var => i = j }

StoreExtracted_WritesNone(ctx, var, value) == [ctx EXCEPT ![var] = value]

StoreExtracted(ctx, var, value) ==
    IF value # JNone THEN [ctx EXCEPT ![var] = value] ELSE ctx

RECURSIVE ExtractVariablesFrom(_, _, _)
ExtractVariablesFrom(extract, r, ctx) ==
    IF extract = <<>> THEN ctx
    ELSE ExtractVariablesFrom(
             Tail(extract), r,
             StoreExtracted(ctx, Head(extract).var,
                            ExtractConfigValue(r, Head(extract).path)))

Contexts == [ExtractVars -> {JAbsent, JStr("old")}]

\* ---------------------------------------------------------- validation
\* A validate entry is a small dict; keys is what it holds, the other
\* fields are the values (meaningful only for the keys held).
NoEntry ==
    [keys |-> {}, status_code |-> {}, max_response_time |-> 0, json |-> <<>>,
     field |-> "", condition |-> "", expected |-> ""]

\* {status_code: 200} and {status_code: [200, 404]}
StatusEntry(codes) ==
    [NoEntry EXCEPT !.keys = {"status_code"}, !.status_code = codes]
\* {max_response_time: ms}
TimeEntry(ms) ==
    [NoEntry EXCEPT !.keys = {"max_response_time"}, !.max_response_time = ms]
\* {json: {path: expected}}
JsonEntry(parts, expected) ==
    [NoEntry EXCEPT !.keys = {"json"},
                    !.json = <<[parts |-> parts, expected |-> expected]>>]
\* {field: f, condition: c, expected: e}
FieldEntry(f, c, e) ==
    [NoEntry EXCEPT !.keys = {"field", "condition", "expected"},
                    !.field = f, !.condition = c, !.expected = e]

TimeLimit == 1000

ValidateEntries ==
    { StatusEntry({200}),
      StatusEntry({200, 404}),
      TimeEntry(TimeLimit),
      JsonEntry(<<"responseMap", "status">>, JStr("SUCCESS")),
      FieldEntry("response.status_code", "equals", "200"),
      FieldEntry("response.responseMap.status", "equals", "SUCCESS"),
      FieldEntry("response.responseMap.status", "not_equals", "FAILED") }

Validates == SeqsUpTo(ValidateEntries, MaxValidate)

\* dict.update: the keys of e replace those of d
DictUpdate(d, e) ==
    [keys |-> d.keys \cup e.keys,
     status_code |-> IF "status_code" \in e.keys THEN e.status_code ELSE d.status_code,
     max_response_time |-> IF "max_response_time" \in e.keys
                           THEN e.max_response_time ELSE d.max_response_time,
     json |-> IF "json" \in e.keys THEN e.json ELSE d.json,
     field |-> IF "field" \in e.keys THEN e.field ELSE d.field,
     condition |-> IF "condition" \in e.keys THEN e.condition ELSE d.condition,
     expected |-> IF "expected" \in e.keys THEN e.expected ELSE d.expected]

RECURSIVE MergeValidations(_, _)
MergeValidations(d, validations) ==
    IF validations = <<>> THEN d
    ELSE MergeValidations(DictUpdate(d, Head(validations)), Tail(validations))

Passed == [raised |-> FALSE, check |-> "none", message |-> "none"]
Raised(check, message) == [raised |-> TRUE, check |-> check, message |-> message]

JsonCheckFails(r, d) ==
    \E i \in 1..Len(d.json) : ExtractJsonValue(r, d.json[i].parts) # d.json[i].expected

ValidateStep(validations, r) ==
    LET d == MergeValidations(NoEntry, validations)
    IN IF d.status_code # {} /\ r.status_code \notin d.status_code
       THEN Raised("status_code", "Expected status")
       ELSE IF d.max_response_time # 0 /\ r.elapsed > d.max_response_time
       THEN Raised("max_response_time", "Response time exceeded limit")
       ELSE IF d.json # <<>> /\ r.body.t = "notjson"
       THEN Raised("json", "Response is not valid JSON")
       ELSE IF d.json # <<>> /\ JsonCheckFails(r, d)
       THEN Raised("json", "JSON validation failed")
       ELSE Passed

\* ------------------------------------------------------- Init, actions
RespInit ==
    /\ StepIdle
    /\ InitIdle
    /\ StoreIdle
    /\ CounterIdle
    /\ FlowIdle
    /\ EvalIdle
    /\ rpc = "start"
    /\ resp \in Responses
    /\ rout = "none"
    /\ \/ /\ rmode = "validate"
          /\ rvalidate \in Validates
          /\ rextract = <<>>
          /\ rctx \in {[v \in ExtractVars |-> JAbsent]}
       \/ /\ rmode = "extract"
          /\ rvalidate = <<>>
          /\ rextract \in Extracts
          /\ rctx \in Contexts

\* FlowExecutor._validate_response(step, response)
DoValidate ==
    /\ rmode = "validate"
    /\ rpc = "start"
    /\ rout' = ValidateStep(rvalidate, resp)
    /\ rpc' = "done"
    /\ UNCHANGED <<rmode, resp, rvalidate, rextract, rctx>>
    /\ UNCHANGED otherThanResp

\* FlowExecutor._extract_variables(step, response)
DoExtract ==
    /\ rmode = "extract"
    /\ rpc = "start"
    /\ rctx' = ExtractVariablesFrom(rextract, resp, rctx)
    /\ rout' = Passed
    /\ rpc' = "done"
    /\ UNCHANGED <<rmode, resp, rvalidate, rextract>>
    /\ UNCHANGED otherThanResp

RespNext ==
    \/ DoValidate
    \/ DoExtract

SpecResp == RespInit /\ [][RespNext]_vars

\* ------------------------------------------------------ claims, SpecResp
\* what a field of the response is, as the field-based form addresses it
FieldValue(r, field) ==
    CASE field = "response.status_code" -> Str(JInt(r.status_code))
      [] field = "response.responseMap.status"
           -> Str(ExtractJsonValue(r, <<"responseMap", "status">>))
      [] OTHER -> "None"

FieldHolds(e, r) ==
    CASE e.condition = "equals" -> FieldValue(r, e.field) = e.expected
      [] e.condition = "not_equals" -> FieldValue(r, e.field) # e.expected
      [] OTHER -> FALSE

IsFieldEntry(e) == "field" \in e.keys

\* C11: a validate entry {field, condition, expected} raises a failure
\* naming the field exactly when the condition does not hold between the
\* addressed response field and expected (status_code equals "200": raises
\* on 404, passes on 200).
C11_FieldEntryEnforced ==
    (rmode = "validate" /\ rpc = "done" /\ Len(rvalidate) = 1
       /\ IsFieldEntry(rvalidate[1]))
    => /\ rout.raised <=> ~FieldHolds(rvalidate[1], resp)
       /\ rout.raised => rout.message = rvalidate[1].field

\* C13: extracting a path the response lacks leaves the target variable as
\* it was (not created, not None, a previous value kept), the other entries
\* of the mapping are still applied, and nothing is raised.
C13_MissLeavesContext ==
    [][DoExtract =>
         /\ \A i \in 1..Len(rextract) :
               LET e == rextract[i]
                   value == ExtractConfigValue(resp, e.path)
               IN IF value = JNone
                  THEN rctx'[e.var] = rctx[e.var]
                  ELSE rctx'[e.var] = value
         /\ \A v \in ExtractVars :
               /\ rctx'[v] # JNone
               /\ (\A i \in 1..Len(rextract) : rextract[i].var # v)
                  => rctx'[v] = rctx[v]
         /\ ~rout'.raised]_vars

C13_Witness ==
    /\ rmode = "extract"
    /\ rpc = "done"
    /\ Len(rextract) = 2
    /\ rextract[1] = [var |-> "a", path |-> StrPath("json", <<"token">>)]
    /\ rextract[2] = [var |-> "b", path |-> StrPath("json", <<"responseMap", "status">>)]
    /\ rctx["a"] = JStr("old")
    /\ rctx["b"] = JStr("SUCCESS")

\* what one entry of a validate list asks of the response, by the keys it
\* contains
EntryHolds(e, r) ==
    /\ "status_code" \in e.keys => r.status_code \in e.status_code
    /\ "max_response_time" \in e.keys => r.elapsed <= e.max_response_time
    /\ "json" \in e.keys
         => /\ r.body.t # "notjson"
            /\ \A i \in 1..Len(e.json) :
                  ExtractJsonValue(r, e.json[i].parts) = e.json[i].expected
    /\ IsFieldEntry(e) => FieldHolds(e, r)

\* C31: for a validate list, validation passes only if every entry of the
\* list is satisfied by the response, legacy keyed or field-based, also
\* when two entries constrain the same key; any unmet entry raises.
C31_EveryEntryEnforced ==
    (rmode = "validate" /\ rpc = "done" /\ rvalidate # <<>>)
    => (~rout.raised <=> \A i \in 1..Len(rvalidate) : EntryHolds(rvalidate[i], resp))

\* ===================================================================
\* SpecInit: the actors of one user class run on_start concurrently and
\* then mutate their contexts in their flows.
\* ===================================================================

\* ------------------------------------------------------------- bounds
NumActors == 2            \* actors started
MaxIds == 2               \* longest list under init_list_var
MaxMutations == 1         \* context mutations an actor's flow makes

Actors == 1..NumActors

\* ------------------------------------------------------------ contexts
\* A context maps each key to a value; 0 stands for a key the dict lacks.
\* The value under "tokens" is a reference to a list object of the heap.
ContextKeys == {"tokens", "current", "_tmp", "_data_store"}
StartsWithUnderscore(k) == k \in {"_tmp", "_data_store"}
NoContext == [k \in ContextKeys |-> 0]
\* the value init steps write, and the SharedDataStore object
InitValue == 9
DataStore == 1

\* the steps under init: a transform append_to_list on tokens, an
\* extraction into current, an extraction into _tmp
InitStepKinds == {"append", "extract", "scratch"}
InitLists ==
    { <<>>, <<"append">>, <<"scratch">>, <<"extract", "append">>,
      <<"append", "extract", "scratch">> }

Configs ==
    { c \in [run_init_once : BOOLEAN, has_list_var : BOOLEAN, num_ids : 0..MaxIds,
             has_tokens : BOOLEAN, init : InitLists] :
        ~c.has_list_var => c.num_ids = 0 }

\* how many executors the shared initialization runs the init steps on
Passes(c) == IF c.has_list_var THEN c.num_ids ELSE 1

\* AppendToListPlugin.execute with list_var = tokens
AppendToList(ctx, h, value) ==
    IF ctx["tokens"] = 0
    THEN [ctx |-> [ctx EXCEPT !["tokens"] = Len(h) + 1], heap |-> Append(h, <<value>>)]
    ELSE [ctx |-> ctx, heap |-> [h EXCEPT ![ctx["tokens"]] = Append(@, value)]]

SetVariable(ctx, name, value) == [ctx EXCEPT ![name] = value]

RunInitStep(kind, ctx, h) ==
    CASE kind = "append" -> AppendToList(ctx, h, InitValue)
      [] kind = "extract" -> [ctx |-> SetVariable(ctx, "current", InitValue), heap |-> h]
      [] OTHER -> [ctx |-> SetVariable(ctx, "_tmp", InitValue), heap |-> h]

RECURSIVE RunInitSteps(_, _, _)
RunInitSteps(steps, ctx, h) ==
    IF steps = <<>> THEN [ctx |-> ctx, heap |-> h]
    ELSE LET r == RunInitStep(Head(steps), ctx, h)
         IN RunInitSteps(Tail(steps), r.ctx, r.heap)

\* FlowExecutor(self.config) followed by context["_data_store"] = ...
NewExecutor(a) ==
    [NoContext EXCEPT !["tokens"] = cfg_list[a], !["_data_store"] = DataStore]

\* self.context.copy(): a new dict holding the same values and references
GetContext(ctx) == [k \in DOMAIN ctx |-> ctx[k]]

CopyShared_KeepsOwn(own, shared) == own

\* set_variable(key, value) for every key of the snapshot not starting "_"
CopyShared(own, shared) ==
    [k \in ContextKeys |->
        IF shared[k] # 0 /\ ~StartsWithUnderscore(k) THEN shared[k] ELSE own[k]]

LockFree_Always(l) == TRUE

\* threading.Lock: acquire blocks while another thread holds it
LockFree(l) == l = 0

LogEntry(a, id, n) == [actor |-> a, id |-> id, step |-> n]

\* ---------------------------------------------------------------- Init
InitInit ==
    /\ StepIdle
    /\ RespIdle
    /\ StoreIdle
    /\ CounterIdle
    /\ FlowIdle
    /\ EvalIdle
    /\ config \in Configs
    /\ upc = [a \in Actors |-> "start"]
    /\ init_lock = 0
    /\ init_completed = FALSE
    /\ shared_context = NoContext
    /\ cfg_list = [a \in Actors |-> 0]
    /\ executor = [a \in Actors |-> NoContext]
    /\ cursor = [a \in Actors |-> [id |-> 0, step |-> 0]]
    /\ user_context = [a \in Actors |-> NoContext]
    /\ heap = <<>>
    /\ init_log = <<>>
    /\ mutations = [a \in Actors |-> 0]

\* ------------------------------------------------------------- actions
\* on_start: self.config = load_config(config_file); every actor parses
\* the file into objects of its own
LoadConfig(a) ==
    /\ upc[a] = "start"
    /\ IF config.has_tokens
       THEN /\ heap' = Append(heap, <<>>)
            /\ cfg_list' = [cfg_list EXCEPT ![a] = Len(heap) + 1]
       ELSE UNCHANGED <<heap, cfg_list>>
    /\ upc' = [upc EXCEPT ![a] = IF config.run_init_once THEN "acquire" ELSE "own_init"]
    /\ UNCHANGED <<config, init_lock, init_completed, shared_context, executor,
                   cursor, user_context, init_log, mutations>>
    /\ UNCHANGED otherThanInit

\* with self.__class__._init_lock:
Acquire(a) ==
    /\ upc[a] = "acquire"
    /\ LockFree(init_lock)
    /\ init_lock' = a
    /\ upc' = [upc EXCEPT ![a] = "check"]
    /\ UNCHANGED <<config, init_completed, shared_context, cfg_list, executor,
                   cursor, user_context, heap, init_log, mutations>>
    /\ UNCHANGED otherThanInit

\* if not _init_completed: ... ; an empty list raises ValueError, which
\* leaves the with block; with no init steps the loops run through
CheckCompleted(a) ==
    /\ upc[a] = "check"
    /\ IF init_completed
       THEN /\ init_lock' = IF init_lock = a THEN 0 ELSE init_lock
            /\ upc' = [upc EXCEPT ![a] = "copy"]
            /\ UNCHANGED <<executor, cursor>>
       ELSE IF config.has_list_var /\ config.num_ids = 0
       THEN /\ init_lock' = IF init_lock = a THEN 0 ELSE init_lock
            /\ upc' = [upc EXCEPT ![a] = "failed"]
            /\ UNCHANGED <<executor, cursor>>
       ELSE /\ executor' = [executor EXCEPT ![a] = NewExecutor(a)]
            /\ IF config.init = <<>>
               THEN /\ upc' = [upc EXCEPT ![a] = "publish"]
                    /\ cursor' = [cursor EXCEPT ![a] = [id |-> Passes(config), step |-> 0]]
               ELSE /\ upc' = [upc EXCEPT ![a] = "init"]
                    /\ cursor' = [cursor EXCEPT ![a] = [id |-> 1, step |-> 1]]
            /\ UNCHANGED init_lock
    /\ UNCHANGED <<config, init_completed, shared_context, cfg_list, user_context,
                   heap, init_log, mutations>>
    /\ UNCHANGED otherThanInit

\* the loops the other way round: each init step for every identifier
\* before the next init step
InitStep_StepsOuter(a) ==
    /\ upc[a] = "init"
    /\ LET c == cursor[a]
           r == RunInitStep(config.init[c.step], executor[a], heap)
       IN /\ heap' = r.heap
          /\ init_log' = Append(init_log, LogEntry(a, c.id, c.step))
          /\ IF config.has_list_var /\ c.id < config.num_ids
             THEN /\ cursor' = [cursor EXCEPT ![a] = [id |-> c.id + 1, step |-> c.step]]
                  /\ executor' = [executor EXCEPT ![a] = NewExecutor(a)]
                  /\ UNCHANGED upc
             ELSE IF c.step < Len(config.init)
             THEN /\ cursor' = [cursor EXCEPT ![a] = [id |-> 1, step |-> c.step + 1]]
                  /\ executor' = [executor EXCEPT ![a] = r.ctx]
                  /\ UNCHANGED upc
             ELSE /\ upc' = [upc EXCEPT ![a] = "publish"]
                  /\ executor' = [executor EXCEPT ![a] = r.ctx]
                  /\ UNCHANGED cursor
    /\ UNCHANGED <<config, init_lock, init_completed, shared_context, cfg_list,
                   user_context, mutations>>
    /\ UNCHANGED otherThanInit

\* user_flow_executor._execute_step(step, is_init=True), and the step to
\* the next init step or the next identifier (with an executor of its own)
InitStep(a) ==
    /\ upc[a] = "init"
    /\ LET c == cursor[a]
           r == RunInitStep(config.init[c.step], executor[a], heap)
       IN /\ heap' = r.heap
          /\ init_log' = Append(init_log, LogEntry(a, c.id, c.step))
          /\ IF c.step < Len(config.init)
             THEN /\ cursor' = [cursor EXCEPT ![a] = [id |-> c.id, step |-> c.step + 1]]
                  /\ executor' = [executor EXCEPT ![a] = r.ctx]
                  /\ UNCHANGED upc
             ELSE IF config.has_list_var /\ c.id < config.num_ids
             THEN /\ cursor' = [cursor EXCEPT ![a] = [id |-> c.id + 1, step |-> 1]]
                  /\ executor' = [executor EXCEPT ![a] = NewExecutor(a)]
                  /\ UNCHANGED upc
             ELSE /\ upc' = [upc EXCEPT ![a] = "publish"]
                  /\ executor' = [executor EXCEPT ![a] = r.ctx]
                  /\ UNCHANGED cursor
    /\ UNCHANGED <<config, init_lock, init_completed, shared_context, cfg_list,
                   user_context, mutations>>
    /\ UNCHANGED otherThanInit

\* _shared_context = user_flow_executor.get_context()
Publish(a) ==
    /\ upc[a] = "publish"
    /\ shared_context' = GetContext(executor[a])
    /\ upc' = [upc EXCEPT ![a] = "complete"]
    /\ UNCHANGED <<config, init_lock, init_completed, cfg_list, executor, cursor,
                   user_context, heap, init_log, mutations>>
    /\ UNCHANGED otherThanInit

\* _init_completed = True
Complete(a) ==
    /\ upc[a] = "complete"
    /\ init_completed' = TRUE
    /\ init_log' = Append(init_log, LogEntry(a, 0, 0))
    /\ upc' = [upc EXCEPT ![a] = "release"]
    /\ UNCHANGED <<config, init_lock, shared_context, cfg_list, executor, cursor,
                   user_context, heap, mutations>>
    /\ UNCHANGED otherThanInit

\* leaving the with block
Release(a) ==
    /\ upc[a] = "release"
    /\ init_lock' = IF init_lock = a THEN 0 ELSE init_lock
    /\ upc' = [upc EXCEPT ![a] = "copy"]
    /\ UNCHANGED <<config, init_completed, shared_context, cfg_list, executor,
                   cursor, user_context, heap, init_log, mutations>>
    /\ UNCHANGED otherThanInit

\* self.flow_executor = FlowExecutor(self.config) and the copy of the
\* snapshot into it
CopySnapshot(a) ==
    /\ upc[a] = "copy"
    /\ user_context' = [user_context EXCEPT ![a] = CopyShared(NewExecutor(a), shared_context)]
    /\ upc' = [upc EXCEPT ![a] = "ready"]
    /\ UNCHANGED <<config, init_lock, init_completed, shared_context, cfg_list,
                   executor, cursor, heap, init_log, mutations>>
    /\ UNCHANGED otherThanInit

\* run_init_once false: the actor runs the init steps on its own executor
OwnInit(a) ==
    /\ upc[a] = "own_init"
    /\ LET r == RunInitSteps(config.init, NewExecutor(a), heap)
       IN /\ user_context' = [user_context EXCEPT ![a] = r.ctx]
          /\ heap' = r.heap
    /\ upc' = [upc EXCEPT ![a] = "ready"]
    /\ UNCHANGED <<config, init_lock, init_completed, shared_context, cfg_list,
                   executor, cursor, init_log, mutations>>
    /\ UNCHANGED otherThanInit

\* a step of the actor's flow extracts into current
FlowExtract(a) ==
    /\ upc[a] = "ready"
    /\ mutations[a] < MaxMutations
    /\ user_context' = [user_context EXCEPT ![a] = SetVariable(@, "current", a)]
    /\ mutations' = [mutations EXCEPT ![a] = @ + 1]
    /\ UNCHANGED <<config, upc, init_lock, init_completed, shared_context, cfg_list,
                   executor, cursor, heap, init_log>>
    /\ UNCHANGED otherThanInit

\* a step of the actor's flow runs the transform append_to_list on tokens
FlowAppend(a) ==
    /\ upc[a] = "ready"
    /\ mutations[a] < MaxMutations
    /\ LET r == AppendToList(user_context[a], heap, a)
       IN /\ user_context' = [user_context EXCEPT ![a] = r.ctx]
          /\ heap' = r.heap
    /\ mutations' = [mutations EXCEPT ![a] = @ + 1]
    /\ UNCHANGED <<config, upc, init_lock, init_completed, shared_context, cfg_list,
                   executor, cursor, init_log>>
    /\ UNCHANGED otherThanInit

InitNext ==
    \E a \in Actors :
        \/ LoadConfig(a)
        \/ Acquire(a)
        \/ CheckCompleted(a)
        \/ InitStep(a)
        \/ Publish(a)
        \/ Complete(a)
        \/ Release(a)
        \/ CopySnapshot(a)
        \/ OwnInit(a)
        \/ FlowExtract(a)
        \/ FlowAppend(a)

SpecInit == InitInit /\ [][InitNext]_vars

\* ------------------------------------------------------ claims, SpecInit
\* inside the block guarded by "if not _init_completed"
InSharedInit(a) == upc[a] \in {"init", "publish", "complete"}
PastTheLock(a) == upc[a] \in {"copy", "ready"}
StepRuns == { i \in 1..Len(init_log) : init_log[i].id # 0 }
Completions == { i \in 1..Len(init_log) : init_log[i].id = 0 }

\* C14: in run_init_once mode exactly one actor performs the shared
\* initialization: every init step runs once per identifier of the list
\* (once in all without a list variable), all of them by that one actor,
\* and never two actors are inside the shared initialization at once.
C14_SingleInitializer ==
    config.run_init_once =>
      /\ Cardinality({ a \in Actors : InSharedInit(a) }) <= 1
      /\ Cardinality({ init_log[i].actor : i \in 1..Len(init_log) }) <= 1
      /\ \A i, j \in StepRuns :
            (init_log[i].id = init_log[j].id /\ init_log[i].step = init_log[j].step)
            => i = j
      /\ Cardinality(Completions) <= 1
      /\ (\E a \in Actors : PastTheLock(a))
         => /\ Cardinality(Completions) = 1
            /\ Cardinality(StepRuns) = Passes(config) * Len(config.init)
            /\ \A id \in 1..Passes(config), n \in 1..Len(config.init) :
                  \E i \in StepRuns : init_log[i].id = id /\ init_log[i].step = n

C14_Witness ==
    /\ config.run_init_once
    /\ config.has_list_var
    /\ config.num_ids = MaxIds
    /\ Len(config.init) = 2
    /\ \A a \in Actors : upc[a] = "ready"
    /\ Cardinality(StepRuns) = MaxIds * 2

\* C15: in run_init_once mode an actor copies the snapshot and finishes
\* its start-up only after the shared initialization has completed, and
\* after start-up its context holds every key of the snapshot that does
\* not start with an underscore, with the snapshot's value.
C15_CopyAfterInit ==
    config.run_init_once =>
      \A a \in Actors :
        /\ PastTheLock(a)
           => /\ init_completed
              /\ Cardinality(Completions) = 1
              /\ \A b \in Actors : ~InSharedInit(b)
        /\ (upc[a] = "ready" /\ mutations[a] = 0)
           => \A k \in ContextKeys :
                 (shared_context[k] # 0 /\ ~StartsWithUnderscore(k))
                 => user_context[a][k] = shared_context[k]

C15_Witness ==
    /\ config.run_init_once
    /\ \A a \in Actors : upc[a] = "ready" /\ mutations[a] = 0
    /\ shared_context["current"] = InitValue
    /\ shared_context["tokens"] # 0
    /\ shared_context["_tmp"] = InitValue
    /\ \A a \in Actors :
          /\ user_context[a]["current"] = InitValue
          /\ user_context[a]["tokens"] = shared_context["tokens"]
          /\ user_context[a]["_tmp"] = 0

\* the run at place i of the log comes before the run at place j in list
\* order: an earlier identifier, or the same one and an earlier init step
InListOrder(i, j) ==
    \/ init_log[i].id < init_log[j].id
    \/ init_log[i].id = init_log[j].id /\ init_log[i].step < init_log[j].step

\* C36: the shared initialization runs in list order: every init step for
\* identifier i, in the order of the init list, before any init step for
\* identifier i+1; and the snapshot published is the context of the
\* executor of the last identifier.
C36_InitInListOrder ==
    /\ [](config.run_init_once
          => /\ \A i, j \in StepRuns : i < j => InListOrder(i, j)
             /\ \A a \in Actors :
                   upc[a] = "publish"
                   => /\ cursor[a].id = Passes(config)
                      /\ Cardinality(StepRuns) = Passes(config) * Len(config.init))
    /\ [][\A a \in Actors :
             (upc[a] = "publish" /\ upc'[a] = "complete")
             => shared_context' = executor[a]]_vars

\* two identifiers, two init steps, no list in the variables: the
\* snapshot holds the list made for the second identifier
C36_Witness ==
    /\ config.run_init_once
    /\ config.has_list_var
    /\ config.num_ids = 2
    /\ config.init = <<"extract", "append">>
    /\ ~config.has_tokens
    /\ init_completed
    /\ Len(heap) = 2
    /\ shared_context["tokens"] = 2
    /\ [i \in 1..4 |-> <<init_log[i].id, init_log[i].step>>]
         = <<<<1, 1>>, <<1, 2>>, <<2, 1>>, <<2, 2>>>>

\* what a context shows to the one reading it: the scalars it holds and
\* the items of the list it refers to
View(ctx, h) ==
    [k \in ContextKeys |->
        IF k = "tokens"
        THEN [present |-> ctx[k] # 0, items |-> IF ctx[k] # 0 THEN h[ctx[k]] ELSE <<>>]
        ELSE [present |-> ctx[k] # 0, items |-> <<ctx[k]>>]]

\* C16: after start-up a mutation of one actor's context by its flow (an
\* extraction, a transform, append_to_list) is not observable in another
\* actor's context nor in the shared snapshot.
C16_ContextPrivate ==
    [][\A a \in Actors :
         (FlowExtract(a) \/ FlowAppend(a))
         => /\ \A b \in Actors \ {a} :
                  upc[b] = "ready"
                  => View(user_context'[b], heap') = View(user_context[b], heap)
            /\ View(shared_context', heap') = View(shared_context, heap)]_vars

\* ===================================================================
\* SpecStore: threads calling the Shared Data Store, directly and through
\* the store_data plugin. SpecLookup adds the lookup plugins' calls.
\* ===================================================================

\* ------------------------------------------------------------- bounds
NumThreads == 2           \* concurrent callers
MaxCalls == 2             \* calls they make in all

Threads == 1..NumThreads
StoreIds == {"u1", "u2"}
Attrs == {"token", "qr"}

\* --------------------------------------------------------------- bags
\* A bag maps each attribute to its value; 0 stands for an attribute the
\* dict lacks. The value a thread stores is its own number.
NoBag == [a \in Attrs |-> 0]
NoBagEntry == [exists |-> FALSE, bag |-> NoBag]
EmptyStore == [id \in StoreIds |-> NoBagEntry]
DataOf(attrs, v) == [a \in Attrs |-> IF a \in attrs THEN v ELSE 0]

BagUpdate_Replaces(bag, data) == data

\* dict.update
BagUpdate(bag, data) == [a \in Attrs |-> IF data[a] # 0 THEN data[a] ELSE bag[a]]

\* ------------------------------------------------------------ results
ResultOf(kind, bag, n, ids) == [kind |-> kind, bag |-> bag, n |-> n, ids |-> ids]
RNone == ResultOf("none", NoBag, 0, {})
RBag(bag) == ResultOf("bag", bag, 0, {})
RValue(v) == ResultOf("value", NoBag, v, {})
RBool(b) == ResultOf("bool", NoBag, IF b THEN 1 ELSE 0, {})
RCount(n) == ResultOf("count", NoBag, n, {})
RIds(ids) == ResultOf("ids", NoBag, 0, ids)
RInput == ResultOf("input", NoBag, 0, {})
RRaised == ResultOf("raised", NoBag, 0, {})

\* ------------------------------------------- the calls, on a store value
NoKey == ""

GetOf(d, id, key) ==
    IF ~d[id].exists THEN RNone
    ELSE IF key # NoKey
    THEN IF d[id].bag[key] # 0 THEN RValue(d[id].bag[key]) ELSE RNone
    ELSE RBag(d[id].bag)

HasDataOf(d, id) == d[id].exists /\ d[id].bag # NoBag
RemoveOf(d, id) == [d EXCEPT ![id] = NoBagEntry]
IdentifiersOf(d) == { id \in StoreIds : d[id].exists }
StoreOf(d, id, data) ==
    [d EXCEPT ![id] = [exists |-> TRUE, bag |-> BagUpdate(d[id].bag, data)]]

Handout_Internal(t, id, bag) ==
    [valid |-> TRUE, to |-> t, id |-> id, bag |-> bag, alias |-> TRUE]

\* self._data[identifier].copy(): the caller gets a dict of its own
Handout(t, id, bag) ==
    [valid |-> TRUE, to |-> t, id |-> id, bag |-> bag, alias |-> FALSE]

NoHandout == [valid |-> FALSE, to |-> 1, id |-> "u1", bag |-> NoBag, alias |-> FALSE]

CanEnter_Always(l) == TRUE

\* with self._lock: entered only while no other thread is inside
CanEnter(l) == l = 0

Leave(l, t) == IF l = t THEN 0 ELSE l

CallOf(name, id, data, absent, refresh) ==
    [name |-> name, id |-> id, data |-> data, absent |-> absent, refresh |-> refresh]
NoCall == CallOf("none", "u1", NoBag, FALSE, FALSE)
ReadCall(name, id) == CallOf(name, id, NoBag, FALSE, FALSE)
Completed(t, c, r) == [by |-> t, call |-> c, value |-> r]

\* store_data: the named context variables that are present
DataToStore(values, present, v) == DataOf(values \cap present, v)

RefreshResult_Input(all_data) == RInput

\* if all_data: return all_data, else fall through to return input_data
RefreshResult(all_data) ==
    IF all_data.kind = "bag" /\ all_data.bag # NoBag THEN all_data ELSE RInput

LookupOf_Lenient(d, id, field, has_store) == GetOf(d, id, field)

\* LookupPlugin.execute: the value of the field, or ValueError
LookupOf(d, id, field, has_store) ==
    IF ~has_store THEN RRaised
    ELSE LET stored_data == GetOf(d, id, NoKey)
         IN IF stored_data.kind # "bag" \/ stored_data.bag = NoBag THEN RRaised
            ELSE IF stored_data.bag[field] = 0 THEN RRaised
            ELSE RValue(stored_data.bag[field])

\* LookupAllPlugin.execute: the bag, or ValueError
LookupAllOf(d, id, has_store) ==
    IF ~has_store THEN RRaised
    ELSE LET stored_data == GetOf(d, id, NoKey)
         IN IF stored_data.kind # "bag" \/ stored_data.bag = NoBag THEN RRaised
            ELSE stored_data

\* ---------------------------------------------------------------- Init
StoreInit ==
    /\ StepIdle
    /\ RespIdle
    /\ InitIdle
    /\ CounterIdle
    /\ FlowIdle
    /\ EvalIdle
    /\ store_data = EmptyStore
    /\ store_lock = 0
    /\ committed = EmptyStore
    /\ tpc = [t \in Threads |-> "idle"]
    /\ call = [t \in Threads |-> NoCall]
    /\ result = Completed(1, NoCall, RNone)
    /\ held = NoHandout
    /\ calls = 0

CanCall(t) == tpc[t] = "idle" /\ calls < MaxCalls

\* ------------------------------------------------------------- actions
\* a call that runs in one piece under the lock and returns r
Returns(t, c, r) ==
    /\ result' = Completed(t, c, r)
    /\ calls' = calls + 1
    /\ UNCHANGED <<store_lock, tpc, call>>

\* store(identifier, data): with self._lock: if identifier not in self._data
StoreEnter(t) ==
    /\ CanCall(t)
    /\ CanEnter(store_lock)
    /\ \E id \in StoreIds, attrs \in SUBSET Attrs :
          call' = [call EXCEPT ![t] =
                      CallOf("store", id, DataOf(attrs, t), ~store_data[id].exists, FALSE)]
    /\ store_lock' = t
    /\ tpc' = [tpc EXCEPT ![t] = "create"]
    /\ calls' = calls + 1
    /\ UNCHANGED <<store_data, committed, result, held>>
    /\ UNCHANGED otherThanStore

\* self._data[identifier] = {}
StoreCreate(t) ==
    /\ tpc[t] = "create"
    /\ store_data' = IF call[t].absent
                     THEN [store_data EXCEPT ![call[t].id] = [exists |-> TRUE, bag |-> NoBag]]
                     ELSE store_data
    /\ tpc' = [tpc EXCEPT ![t] = "update"]
    /\ UNCHANGED <<store_lock, committed, call, result, held, calls>>
    /\ UNCHANGED otherThanStore

\* self._data[identifier].update(data), and the end of the with block
StoreUpdate(t) ==
    /\ tpc[t] = "update"
    /\ store_data' = StoreOf(store_data, call[t].id, call[t].data)
    /\ committed' = StoreOf(committed, call[t].id, call[t].data)
    /\ store_lock' = Leave(store_lock, t)
    /\ IF call[t].name = "store_data"
       THEN /\ tpc' = [tpc EXCEPT ![t] = "refresh"]
            /\ UNCHANGED <<call, result>>
       ELSE /\ tpc' = [tpc EXCEPT ![t] = "idle"]
            /\ call' = [call EXCEPT ![t] = NoCall]
            /\ result' = Completed(t, call[t], RNone)
    /\ UNCHANGED <<held, calls>>
    /\ UNCHANGED otherThanStore

\* get(identifier, key=None)
Get(t) ==
    /\ CanCall(t)
    /\ CanEnter(store_lock)
    /\ \E id \in StoreIds, key \in Attrs \cup {NoKey} :
          /\ Returns(t, ReadCall("get", id), GetOf(store_data, id, key))
          /\ held' = IF key = NoKey /\ store_data[id].exists
                     THEN Handout(t, id, store_data[id].bag) ELSE held
    /\ UNCHANGED <<store_data, committed>>
    /\ UNCHANGED otherThanStore

\* has_data(identifier)
HasData(t) ==
    /\ CanCall(t)
    /\ CanEnter(store_lock)
    /\ \E id \in StoreIds :
          Returns(t, ReadCall("has_data", id), RBool(HasDataOf(store_data, id)))
    /\ UNCHANGED <<store_data, committed, held>>
    /\ UNCHANGED otherThanStore

\* remove(identifier)
Remove(t) ==
    /\ CanCall(t)
    /\ CanEnter(store_lock)
    /\ \E id \in StoreIds :
          /\ store_data' = RemoveOf(store_data, id)
          /\ committed' = RemoveOf(committed, id)
          /\ Returns(t, ReadCall("remove", id), RNone)
    /\ UNCHANGED held
    /\ UNCHANGED otherThanStore

\* clear_all()
ClearAll(t) ==
    /\ CanCall(t)
    /\ CanEnter(store_lock)
    /\ store_data' = EmptyStore
    /\ committed' = EmptyStore
    /\ Returns(t, NoCall, RNone)
    /\ UNCHANGED held
    /\ UNCHANGED otherThanStore

\* get_all_identifiers()
GetAllIdentifiers(t) ==
    /\ CanCall(t)
    /\ CanEnter(store_lock)
    /\ Returns(t, NoCall, RIds(IdentifiersOf(store_data)))
    /\ UNCHANGED <<store_data, committed, held>>
    /\ UNCHANGED otherThanStore

\* get_count()
GetCount(t) ==
    /\ CanCall(t)
    /\ CanEnter(store_lock)
    /\ Returns(t, NoCall, RCount(Cardinality(IdentifiersOf(store_data))))
    /\ UNCHANGED <<store_data, committed, held>>
    /\ UNCHANGED otherThanStore

\* the caller adds, changes (v # 0) or deletes (v = 0) an attribute of the
\* bag a get handed out
ClientMutate(t) ==
    /\ tpc[t] = "idle"
    /\ held.valid
    /\ held.to = t
    /\ \E a \in Attrs, v \in {0, NumThreads + 1} :
          /\ held' = [held EXCEPT !.bag[a] = v]
          /\ store_data' = IF held.alias
                           THEN [store_data EXCEPT ![held.id].bag[a] = v]
                           ELSE store_data
    /\ UNCHANGED <<store_lock, committed, tpc, call, result, calls>>
    /\ UNCHANGED otherThanStore

\* StoreDataPlugin.execute without a store in the context
PluginFails(t) ==
    /\ CanCall(t)
    /\ Returns(t, NoCall, RRaised)
    /\ UNCHANGED <<store_data, committed, held>>
    /\ UNCHANGED otherThanStore

\* StoreDataPlugin.execute when none of the named variables is present
PluginNothingToStore(t) ==
    /\ CanCall(t)
    /\ \E id \in StoreIds, values \in (SUBSET Attrs) \ {{}}, refresh \in BOOLEAN :
          call' = [call EXCEPT ![t] =
                      CallOf("store_data", id, DataToStore(values, {}, t), FALSE, refresh)]
    /\ tpc' = [tpc EXCEPT ![t] = "refresh"]
    /\ calls' = calls + 1
    /\ UNCHANGED <<store_data, store_lock, committed, result, held>>
    /\ UNCHANGED otherThanStore

\* StoreDataPlugin.execute up to data_store.store(identifier, data_to_store)
PluginStore(t) ==
    /\ CanCall(t)
    /\ CanEnter(store_lock)
    /\ \E id \in StoreIds, values \in (SUBSET Attrs) \ {{}},
          present \in (SUBSET Attrs) \ {{}}, refresh \in BOOLEAN :
          /\ values \cap present # {}
          /\ call' = [call EXCEPT ![t] =
                         CallOf("store_data", id, DataToStore(values, present, t),
                                ~store_data[id].exists, refresh)]
    /\ store_lock' = t
    /\ tpc' = [tpc EXCEPT ![t] = "create"]
    /\ calls' = calls + 1
    /\ UNCHANGED <<store_data, committed, result, held>>
    /\ UNCHANGED otherThanStore

\* StoreDataPlugin.execute from "refresh = config.get('refresh', False)"
PluginRefresh(t) ==
    /\ tpc[t] = "refresh"
    /\ call[t].refresh => CanEnter(store_lock)
    /\ result' = Completed(t, call[t],
                           IF call[t].refresh
                           THEN RefreshResult(GetOf(store_data, call[t].id, NoKey))
                           ELSE RInput)
    /\ tpc' = [tpc EXCEPT ![t] = "idle"]
    /\ call' = [call EXCEPT ![t] = NoCall]
    /\ UNCHANGED <<store_data, store_lock, committed, held, calls>>
    /\ UNCHANGED otherThanStore

\* LookupPlugin.execute; its one reading call is data_store.get(store_key)
Lookup(t) ==
    /\ CanCall(t)
    /\ CanEnter(store_lock)
    /\ \E id \in StoreIds, field \in Attrs, has_store \in BOOLEAN :
          Returns(t, ReadCall("lookup", id), LookupOf(store_data, id, field, has_store))
    /\ UNCHANGED <<store_data, committed, held>>
    /\ UNCHANGED otherThanStore

\* LookupAllPlugin.execute
LookupAll(t) ==
    /\ CanCall(t)
    /\ CanEnter(store_lock)
    /\ \E id \in StoreIds, has_store \in BOOLEAN :
          Returns(t, ReadCall("lookup_all", id), LookupAllOf(store_data, id, has_store))
    /\ UNCHANGED <<store_data, committed, held>>
    /\ UNCHANGED otherThanStore

StoreNext ==
    \E t \in Threads :
        \/ StoreEnter(t)
        \/ StoreCreate(t)
        \/ StoreUpdate(t)
        \/ Get(t)
        \/ HasData(t)
        \/ Remove(t)
        \/ ClearAll(t)
        \/ GetAllIdentifiers(t)
        \/ GetCount(t)
        \/ ClientMutate(t)
        \/ PluginFails(t)
        \/ PluginNothingToStore(t)
        \/ PluginStore(t)
        \/ PluginRefresh(t)

SpecStore == StoreInit /\ [][StoreNext]_vars

\* the store with the plugin's lookups calling into it as well
LookupNext ==
    \E t \in Threads :
        \/ Lookup(t)
        \/ LookupAll(t)

SpecLookup == StoreInit /\ [][StoreNext \/ LookupNext]_vars

\* ----------------------------------------------------- claims, SpecStore
InsideStore(t) == tpc[t] \in {"create", "update"}

Reads(t) ==
    \/ Get(t)
    \/ HasData(t)
    \/ GetAllIdentifiers(t)
    \/ GetCount(t)
    \/ (PluginRefresh(t) /\ call[t].refresh)

\* C17: every store operation is atomic under any interleaving: what the
\* completed calls have written is what the store holds (no attribute and
\* no identifier is lost), get_count answers the number of identifiers
\* stored, and a reader never sees a bag a store is half way through.
C17_StoreAtomic ==
    /\ [](/\ store_lock = 0 => store_data = committed
          /\ Cardinality({ t \in Threads : InsideStore(t) }) <= 1
          /\ \A t \in Threads : InsideStore(t) => store_lock = t)
    /\ [][\A t \in Threads :
            /\ Reads(t) => store_data = committed
            /\ GetCount(t)
               => result'.value = RCount(Cardinality(IdentifiersOf(committed)))]_vars

C17_Witness ==
    /\ store_data["u1"].bag = [token |-> 1, qr |-> 2]
    /\ committed = store_data
    /\ \A t \in Threads : tpc[t] = "idle"
    /\ result.by = 2

\* C18: store merges: the bag of the identifier becomes the union of what
\* it held and what is stored, the stored value winning for an attribute
\* held before; no attribute is removed and no other identifier changes.
C18_MergeAdditive ==
    [][\A t \in Threads :
         StoreUpdate(t) =>
           LET id == call[t].id
               data == call[t].data
           IN /\ store_data'[id].exists
              /\ \A a \in Attrs :
                    /\ store_data'[id].bag[a] =
                          IF data[a] # 0 THEN data[a] ELSE committed[id].bag[a]
                    /\ committed[id].bag[a] # 0 => store_data'[id].bag[a] # 0
              /\ \A other \in StoreIds \ {id} : store_data'[other] = store_data[other]]_vars

C18_Witness ==
    /\ calls = 2
    /\ result = Completed(1, CallOf("store", "u1", DataOf({"qr"}, 1), FALSE, FALSE), RNone)
    /\ store_data["u1"].bag = [token |-> 1, qr |-> 1]
    /\ ~store_data["u2"].exists

\* C19: get without a key hands out a copy: adding, changing or deleting
\* attributes of it leaves the store as it was; get on an unknown
\* identifier or a lacking attribute answers None; get changes nothing.
C19_GetReturnsCopy ==
    /\ [](\A id \in StoreIds, key \in Attrs :
             /\ ~store_data[id].exists
                => GetOf(store_data, id, key) = RNone /\ GetOf(store_data, id, NoKey) = RNone
             /\ (store_data[id].exists /\ store_data[id].bag[key] = 0)
                => GetOf(store_data, id, key) = RNone)
    /\ [][\A t \in Threads :
            (ClientMutate(t) \/ Get(t))
            => /\ store_data' = store_data
               /\ \A id \in StoreIds, key \in Attrs \cup {NoKey} :
                     GetOf(store_data', id, key) = GetOf(store_data, id, key)]_vars

C19_Witness ==
    /\ held.valid
    /\ held.id = "u1"
    /\ held.bag = [token |-> NumThreads + 1, qr |-> 1]
    /\ store_data["u1"].bag = [token |-> 1, qr |-> 1]

\* C20: store_data puts the named context variables that are present into
\* the entry of config.key, merging; with refresh it returns the merged
\* bag of the entry (its input when the entry is missing or empty),
\* without refresh its input; without a store in the context it raises.
C20_StoreDataRefresh ==
    [][\A t \in Threads :
         /\ (StoreUpdate(t) /\ call[t].name = "store_data")
            => \A a \in Attrs :
                  store_data'[call[t].id].bag[a] =
                     IF call[t].data[a] # 0 THEN call[t].data[a]
                     ELSE committed[call[t].id].bag[a]
         /\ PluginRefresh(t)
            => LET e == committed[call[t].id]
               IN /\ (call[t].refresh /\ e.exists /\ e.bag # NoBag)
                     => result'.value = RBag(e.bag)
                  /\ (call[t].refresh /\ ~(e.exists /\ e.bag # NoBag))
                     => result'.value = RInput
                  /\ ~call[t].refresh => result'.value = RInput
                  /\ store_data' = store_data
         /\ PluginFails(t) => result'.value = RRaised /\ store_data' = store_data]_vars

C20_Witness ==
    /\ result = Completed(2, CallOf("store_data", "u1", DataOf({"qr"}, 2), FALSE, TRUE),
                          RBag([token |-> 1, qr |-> 2]))

WithData(d) == { id \in StoreIds : HasDataOf(d, id) }

\* C40: between calls, has_data holds exactly for the identifiers that
\* get_all_identifiers lists and get_count is their number; remove and
\* clear_all leave nothing of the entries they remove, and remove of an
\* identifier the store lacks changes nothing.
C40_HasDataMatchesListing ==
    /\ [](store_lock = 0 =>
            /\ WithData(store_data) = IdentifiersOf(store_data)
            /\ Cardinality(IdentifiersOf(store_data)) = Cardinality(WithData(store_data)))
    /\ [][/\ (calls' = calls + 1 /\ tpc' = tpc /\ result'.call.name = "remove")
             => /\ store_data'[result'.call.id] = NoBagEntry
                /\ \A id \in StoreIds \ {result'.call.id} : store_data'[id] = store_data[id]
                /\ ~store_data[result'.call.id].exists => store_data' = store_data
          /\ (calls' = calls + 1 /\ tpc' = tpc /\ result'.call = NoCall
                 /\ result'.value = RNone)
             => store_data' = EmptyStore]_vars


\* ======================================================================
\* The generator plugins that keep a counter: select_from_list in
\* round_robin mode and increment (framework/plugins/generators.py),
\* called by several threads at once.
\* ======================================================================

NumWorkers == 2           \* concurrent callers
MaxSelects == 6           \* select_from_list calls made in all
MaxIncrements == 3        \* increment calls made in all

Workers == 1..NumWorkers

\* counter keys: the "from" of a select_from_list entry ("default" when
\* it has none), the "key" of an increment entry ("default" when none)
CounterKeys == {"default", "users"}

\* key not in the dict
NoCounter == -1
NoCounters == [k \in CounterKeys |-> NoCounter]

\* the lists select_from_list is given; the empty one is "no items"
ItemLists == {<<>>, <<"a", "b">>, <<"a", "b", "c">>}

\* start and step of an increment entry: the defaults, and another pair
DefaultStart == 1
DefaultStep == 1
IncrementConfigs == {[start |-> DefaultStart, step |-> DefaultStep],
                     [start |-> 10, step |-> 5]}

\* the transform entries: which plugin, with what, and whether the
\* callers are one actor after another or several at once
PluginConfigs ==
    {[plugin |-> "select_from_list", mode |-> "round_robin", items |-> l,
      start |-> DefaultStart, step |-> DefaultStep, concurrent |-> TRUE] :
        l \in ItemLists}
    \cup
    {[plugin |-> "increment", mode |-> "none", items |-> <<>>,
      start |-> c.start, step |-> c.step, concurrent |-> b] :
        c \in IncrementConfigs, b \in BOOLEAN}

IndexOf_NoWrap(counter, n) == IF counter < n THEN counter ELSE n - 1

\* index = self._round_robin_counters[counter_key] % len(items)
IndexOf(counter, n) == counter % n

\* selected = items[index], Python's indices starting at 0
ItemAt(items, index) == items[index + 1]

CounterLockFree_Always(l) == TRUE

\* with self._counter_lock
CounterLockFree(l) == l = 0

Advanced_ByOne(counter, by) == counter + 1

\* self._counters[key] += step
Advanced(counter, by) == counter + by

\* the locals of a caller
Local(p, k, r, i, s, t) ==
    [pc |-> p, key |-> k, read |-> r, index |-> i, selected |-> s, tmp |-> t]
IdleWorker == Local("idle", "default", 0, 0, "", 0)

\* what a call handed back: the counter value it read and the value
Handed(read, value) == [read |-> read, value |-> value]
ValueError == Handed(NoCounter, "ValueError")

CallsMade ==
    LET RECURSIVE Total(_)
        Total(K) == IF K = {} THEN 0
                    ELSE LET k == CHOOSE x \in K : TRUE
                         IN Len(returned[k]) + Total(K \ {k})
    IN Total(CounterKeys) + Cardinality({w \in Workers : worker[w].pc # "idle"})

\* a caller may begin a call of the plugin
CanBegin(w, plugin, most) ==
    /\ plugin_config.plugin = plugin
    /\ worker[w].pc = "idle"
    /\ CallsMade < most
    /\ plugin_config.concurrent \/ \A o \in Workers : worker[o].pc = "idle"

CounterInit ==
    /\ StepIdle
    /\ RespIdle
    /\ InitIdle
    /\ StoreIdle
    /\ FlowIdle
    /\ EvalIdle
    /\ plugin_config \in PluginConfigs
    /\ round_robin_counters = NoCounters
    /\ counter_lock = 0
    /\ counters = NoCounters
    /\ worker = [w \in Workers |-> IdleWorker]
    /\ returned = [k \in CounterKeys |-> <<>>]

\* ------------------------------------------------------------- actions
\* if not items: raise ValueError
SelectRaises(w) ==
    /\ CanBegin(w, "select_from_list", MaxSelects)
    /\ plugin_config.items = <<>>
    /\ \E k \in CounterKeys :
          returned' = [returned EXCEPT ![k] = Append(@, ValueError)]
    /\ UNCHANGED <<plugin_config, round_robin_counters, counter_lock, counters, worker>>
    /\ UNCHANGED otherThanCounter

\* counter_key = config.get("from", "default"); with self._counter_lock:
SelectAcquire(w) ==
    /\ CanBegin(w, "select_from_list", MaxSelects)
    /\ plugin_config.items # <<>>
    /\ plugin_config.mode = "round_robin"
    /\ CounterLockFree(counter_lock)
    /\ counter_lock' = w
    /\ \E k \in CounterKeys :
          worker' = [worker EXCEPT ![w] = Local("rr_check", k, 0, 0, "", 0)]
    /\ UNCHANGED <<plugin_config, round_robin_counters, counters, returned>>
    /\ UNCHANGED otherThanCounter

\* if counter_key not in self._round_robin_counters: ... = 0
SelectCheck(w) ==
    /\ worker[w].pc = "rr_check"
    /\ round_robin_counters' =
          IF round_robin_counters[worker[w].key] = NoCounter
          THEN [round_robin_counters EXCEPT ![worker[w].key] = 0]
          ELSE round_robin_counters
    /\ worker' = [worker EXCEPT ![w].pc = "rr_index"]
    /\ UNCHANGED <<plugin_config, counter_lock, counters, returned>>
    /\ UNCHANGED otherThanCounter

\* index = counter % len(items); selected = items[index]
SelectIndex(w) ==
    /\ worker[w].pc = "rr_index"
    /\ LET counter == round_robin_counters[worker[w].key]
           index == IndexOf(counter, Len(plugin_config.items))
       IN worker' = [worker EXCEPT ![w] =
                        Local("rr_load", @.key, counter, index,
                              ItemAt(plugin_config.items, index), 0)]
    /\ UNCHANGED <<plugin_config, round_robin_counters, counter_lock, counters, returned>>
    /\ UNCHANGED otherThanCounter

\* self._round_robin_counters[counter_key] += 1: the read of the counter
SelectLoad(w) ==
    /\ worker[w].pc = "rr_load"
    /\ worker' = [worker EXCEPT ![w].pc = "rr_store",
                                ![w].tmp = round_robin_counters[worker[w].key]]
    /\ UNCHANGED <<plugin_config, round_robin_counters, counter_lock, counters, returned>>
    /\ UNCHANGED otherThanCounter

\* self._round_robin_counters[counter_key] += 1: the write of the sum
SelectStore(w) ==
    /\ worker[w].pc = "rr_store"
    /\ round_robin_counters' =
          [round_robin_counters EXCEPT ![worker[w].key] = worker[w].tmp + 1]
    /\ worker' = [worker EXCEPT ![w].pc = "rr_release"]
    /\ UNCHANGED <<plugin_config, counter_lock, counters, returned>>
    /\ UNCHANGED otherThanCounter

\* leaving the with block; return selected
SelectReturn(w) ==
    /\ worker[w].pc = "rr_release"
    /\ counter_lock' = 0
    /\ returned' = [returned EXCEPT ![worker[w].key] =
                       Append(@, Handed(worker[w].read, worker[w].selected))]
    /\ worker' = [worker EXCEPT ![w] = IdleWorker]
    /\ UNCHANGED <<plugin_config, round_robin_counters, counters>>
    /\ UNCHANGED otherThanCounter

\* key = config.get("key", "default"); if key not in self._counters:
IncrementCheck(w) ==
    /\ CanBegin(w, "increment", MaxIncrements)
    /\ \E k \in CounterKeys :
          worker' = [worker EXCEPT ![w] =
                        Local(IF counters[k] = NoCounter THEN "inc_init" ELSE "inc_load",
                              k, 0, 0, "", 0)]
    /\ UNCHANGED <<plugin_config, round_robin_counters, counter_lock, counters, returned>>
    /\ UNCHANGED otherThanCounter

\* self._counters[key] = start
IncrementInit(w) ==
    /\ worker[w].pc = "inc_init"
    /\ counters' = [counters EXCEPT ![worker[w].key] = plugin_config.start]
    /\ worker' = [worker EXCEPT ![w].pc = "inc_return"]
    /\ UNCHANGED <<plugin_config, round_robin_counters, counter_lock, returned>>
    /\ UNCHANGED otherThanCounter

\* self._counters[key] += step: the read of the counter
IncrementLoad(w) ==
    /\ worker[w].pc = "inc_load"
    /\ worker' = [worker EXCEPT ![w].pc = "inc_store",
                                ![w].tmp = counters[worker[w].key]]
    /\ UNCHANGED <<plugin_config, round_robin_counters, counter_lock, counters, returned>>
    /\ UNCHANGED otherThanCounter

\* self._counters[key] += step: the write of the sum
IncrementStore(w) ==
    /\ worker[w].pc = "inc_store"
    /\ counters' = [counters EXCEPT ![worker[w].key] = Advanced(worker[w].tmp, plugin_config.step)]
    /\ worker' = [worker EXCEPT ![w].pc = "inc_return"]
    /\ UNCHANGED <<plugin_config, round_robin_counters, counter_lock, returned>>
    /\ UNCHANGED otherThanCounter

\* return self._counters[key]
IncrementReturn(w) ==
    /\ worker[w].pc = "inc_return"
    /\ returned' = [returned EXCEPT ![worker[w].key] =
                       Append(@, Handed(counters[worker[w].key], counters[worker[w].key]))]
    /\ worker' = [worker EXCEPT ![w] = IdleWorker]
    /\ UNCHANGED <<plugin_config, round_robin_counters, counter_lock, counters>>
    /\ UNCHANGED otherThanCounter

CounterNext ==
    \E w \in Workers :
        \/ SelectRaises(w)
        \/ SelectAcquire(w)
        \/ SelectCheck(w)
        \/ SelectIndex(w)
        \/ SelectLoad(w)
        \/ SelectStore(w)
        \/ SelectReturn(w)
        \/ IncrementCheck(w)
        \/ IncrementInit(w)
        \/ IncrementLoad(w)
        \/ IncrementStore(w)
        \/ IncrementReturn(w)

SpecCounter == CounterInit /\ [][CounterNext]_vars

\* ------------------------------------------------------------- claims
\* the values the calls on a key returned, in order
ValuesOf(k) == [i \in 1..Len(returned[k]) |-> returned[k][i].value]
ReadsOf(k) == [i \in 1..Len(returned[k]) |-> returned[k][i].read]
AllIdle == \A w \in Workers : worker[w].pc = "idle"
Selecting == plugin_config.plugin = "select_from_list" /\ plugin_config.items # <<>>
Incrementing == plugin_config.plugin = "increment"

\* C22: in round_robin mode the i-th call on a key (counting from 0)
\* returns items[i mod length]; six calls over [a,b,c] give a,b,c,a,b,c.
C22_RoundRobinOrder ==
    Selecting
    => \A k \in CounterKeys : \A i \in 1..Len(returned[k]) :
          ValuesOf(k)[i]
            = plugin_config.items[((i - 1) % Len(plugin_config.items)) + 1]

C22_Witness ==
    /\ plugin_config.items = <<"a", "b", "c">>
    /\ ValuesOf("users") = <<"a", "b", "c", "a", "b", "c">>

\* C23: the round_robin index of a key is shared by all callers and
\* advances atomically: n calls advance it by exactly n, it never
\* decreases, no two calls read the same index value, and any L
\* consecutive calls over a list of length L select every element once.
C23_IndexAtomic ==
    /\ [](Selecting
          => \A k \in CounterKeys :
                LET n == Len(returned[k])
                    L == Len(plugin_config.items)
                IN /\ \A i, j \in 1..n : i # j => ReadsOf(k)[i] # ReadsOf(k)[j]
                   /\ (AllIdle /\ n > 0) => round_robin_counters[k] = n
                   /\ (AllIdle /\ n = 0) => round_robin_counters[k] = NoCounter
                   /\ \A i \in 1..n :
                         i + L - 1 <= n
                         => {ValuesOf(k)[j] : j \in i..(i + L - 1)}
                              = {plugin_config.items[j] : j \in 1..L})
    /\ [][\A k \in CounterKeys :
              round_robin_counters'[k] >= round_robin_counters[k]]_vars

C23_Witness ==
    /\ counter_lock = 2
    /\ worker[2].pc = "rr_store"
    /\ worker[2].key = "users"
    /\ worker[2].read = 2
    /\ ReadsOf("users") = <<0, 1>>
    /\ ReadsOf("default") = <<0>>

\* C24: called by one actor after another, increment returns start on
\* the first call for a key and step more on every later call for it
\* (10, 15, 20 for start 10 and step 5); the counters of different keys
\* are independent, and a counter once made stays.
C24_IncrementSequence ==
    /\ []((Incrementing /\ ~plugin_config.concurrent)
          => \A k \in CounterKeys : \A i \in 1..Len(returned[k]) :
                ValuesOf(k)[i] = plugin_config.start + (i - 1) * plugin_config.step)
    /\ [][\A k \in CounterKeys :
              counters[k] # NoCounter => counters'[k] # NoCounter]_vars

C24_Witness ==
    /\ ~plugin_config.concurrent
    /\ ValuesOf("default") = <<10, 15, 20>>

\* C25: n concurrent increment calls on one key return exactly start,
\* start+step, ..., start+(n-1)*step, each once.
C25_IncrementAtomic ==
    (Incrementing /\ AllIdle)
    => \A k \in CounterKeys :
          LET n == Len(returned[k])
          IN /\ {ValuesOf(k)[i] : i \in 1..n}
                  = {plugin_config.start + (i - 1) * plugin_config.step : i \in 1..n}
             /\ \A i, j \in 1..n : i # j => ValuesOf(k)[i] # ValuesOf(k)[j]

\* ----------------------------------------------------------------------
\* SpecSources: select_from_list entries in round_robin mode over two
\* different sources, called one after the other in any order.
\* ----------------------------------------------------------------------
\* a source: a context variable named by "from", or an inline "items" list
FromSource(name, items) == [has_from |-> TRUE, from |-> name, items |-> items]
ItemsSource(items) == [has_from |-> FALSE, from |-> "", items |-> items]
Sources ==
    {FromSource("users", <<"a", "b">>),
     FromSource("admins", <<"x", "y", "z">>),
     ItemsSource(<<"a", "b">>),
     ItemsSource(<<"p", "q", "r">>)}
SourceKeys == {"default", "users", "admins"}

\* counter_key = config.get("from", "default")
CounterKeyOf(source) == IF source.has_from THEN source.from ELSE "default"

SourcesInit ==
    /\ StepIdle
    /\ RespIdle
    /\ InitIdle
    /\ StoreIdle
    /\ FlowIdle
    /\ EvalIdle
    /\ plugin_config \in {p \in [1..2 -> Sources] : p[1] # p[2]}
    /\ round_robin_counters = [k \in SourceKeys |-> NoCounter]
    /\ counter_lock = 0
    /\ counters = NoCounters
    /\ worker = [w \in Workers |-> IdleWorker]
    /\ returned = [i \in 1..2 |-> <<>>]

\* SelectFromListPlugin.execute in round_robin mode on entry i, the
\* block under the lock in one piece
SelectRoundRobin(w, i) ==
    LET source == plugin_config[i]
        counter_key == CounterKeyOf(source)
        counter == IF round_robin_counters[counter_key] = NoCounter
                   THEN 0 ELSE round_robin_counters[counter_key]
        selected == ItemAt(source.items, IndexOf(counter, Len(source.items)))
    IN /\ Len(returned[1]) + Len(returned[2]) < MaxSelects
       /\ CounterLockFree(counter_lock)
       /\ round_robin_counters' =
             [round_robin_counters EXCEPT ![counter_key] = counter + 1]
       /\ returned' = [returned EXCEPT ![i] = Append(@, Handed(counter, selected))]
       /\ UNCHANGED <<plugin_config, counter_lock, counters, worker>>
       /\ UNCHANGED otherThanCounter

SourcesNext == \E w \in Workers : \E i \in 1..2 : SelectRoundRobin(w, i)

SpecSources == SourcesInit /\ [][SourcesNext]_vars

\* C34: round_robin keeps an index of its own for each distinct source
\* (each "from" variable, each inline "items" list): whatever calls are
\* made on another source in between, the calls on a source return its
\* elements in list order.
C34_IndexPerSource ==
    \A i \in 1..2 : \A n \in 1..Len(returned[i]) :
        returned[i][n].value
          = ItemAt(plugin_config[i].items, (n - 1) % Len(plugin_config[i].items))

\* ======================================================================
\* One iteration over the "steps" of the configuration:
\* ConfigDrivenUser.execute_flow (framework/locust_user.py), the task the
\* load generator calls, and FlowExecutor.execute_flow
\* (framework/flow_executor.py).
\* ======================================================================

MaxSteps == 2             \* longest "steps" list

\* weights and random numbers are counted in quarters: One is 1.0
One == 4
Randoms == 0..(One - 1)

\* the "weight" of a step: absent, a number, a string, or something else
Weight(kind, num, text) == [kind |-> kind, num |-> num, text |-> text]
NoWeight == Weight("absent", 0, "")
Number(v) == Weight("number", v, "")
NumberWeights == {Number(v) : v \in {0 - One, 0, 2, One, One + 2}}
StringWeights == {Weight("str", 0, t) : t \in {"0.5", "2", "abc"}}
OtherWeight == Weight("other", 0, "")
Weights == {NoWeight, OtherWeight} \cup NumberWeights \cup StringWeights

\* float(weight) of the strings that are numbers
FloatOf == ("0.5" :> 2) @@ ("2" :> 2 * One)

FlowMax(a, b) == IF a >= b THEN a ELSE b
FlowMin(a, b) == IF a <= b THEN a ELSE b

\* execute_flow: the weight the loop compares the random number with
EffectiveWeight(w) ==
    LET given == IF w.kind = "absent" THEN Number(One) ELSE w
        cast == IF given.kind = "str"
                THEN IF given.text \in DOMAIN FloatOf
                     THEN Number(FloatOf[given.text])
                     ELSE Number(One)
                ELSE given
    IN IF cast.kind # "number" THEN One
       ELSE IF cast.num < 0 \/ cast.num > One
            THEN FlowMax(0, FlowMin(One, cast.num))
            ELSE cast.num

\* if weight < 1 and random.random() > weight: continue
Skips(weight, d) == weight < One /\ d > weight

\* step.get("fail_fast", default)
FailFast(s, default) ==
    IF s.fail_fast = "absent" THEN default ELSE s.fail_fast = "true"

FlowStep(w, f) == [weight |-> w, fail_fast |-> f]
FlowSteps ==
    {FlowStep(w, "absent") : w \in Weights}
    \cup {FlowStep(w, f) : w \in {NoWeight, Number(2)}, f \in {"true", "false"}}
UnweightedSteps == {s \in FlowSteps : s.weight = NoWeight}

StepLists(S) == UNION {[1..n -> S] : n \in 0..MaxSteps}

FlowConfigs ==
    {[entry |-> "task", steps |-> l] : l \in StepLists(FlowSteps)}
    \cup {[entry |-> "executor", steps |-> l] : l \in StepLists(UnweightedSteps)}

\* what _execute_step hands back: a result with success true or false;
\* it catches every Exception itself
StepOutcomes == {"ok", "failed"}

\* what became of a step the loop reached
Reached(i, ran, outcome) == [step |-> i, ran |-> ran, outcome |-> outcome]

FlowInit ==
    /\ StepIdle
    /\ RespIdle
    /\ InitIdle
    /\ StoreIdle
    /\ CounterIdle
    /\ EvalIdle
    /\ flow_config \in FlowConfigs
    /\ step_index = 1
    /\ draw = 0
    /\ executed = <<>>
    /\ stopped = FALSE

InLoop(entry) ==
    /\ flow_config.entry = entry
    /\ ~stopped
    /\ step_index <= Len(flow_config.steps)

\* ------------------------------------------------------------- actions
\* ConfigDrivenUser.execute_flow: the step is passed over (continue)
TaskSkip ==
    /\ InLoop("task")
    /\ \E d \in Randoms :
          /\ Skips(EffectiveWeight(flow_config.steps[step_index].weight), d)
          /\ draw' = d
    /\ executed' = Append(executed, Reached(step_index, FALSE, "none"))
    /\ step_index' = step_index + 1
    /\ UNCHANGED <<flow_config, stopped>>
    /\ UNCHANGED otherThanFlow

\* ConfigDrivenUser.execute_flow: the step is executed; break only in
\* the except branch
TaskExecute ==
    /\ InLoop("task")
    /\ LET s == flow_config.steps[step_index]
           weight == EffectiveWeight(s.weight)
       IN /\ \/ weight >= One /\ draw' = draw
             \/ weight < One /\ \E d \in Randoms : ~Skips(weight, d) /\ draw' = d
          /\ \E outcome \in StepOutcomes :
                /\ executed' = Append(executed, Reached(step_index, TRUE, outcome))
                /\ stopped' = (outcome = "raised" /\ FailFast(s, FALSE))
    /\ step_index' = step_index + 1
    /\ UNCHANGED flow_config
    /\ UNCHANGED otherThanFlow

\* FlowExecutor.execute_flow: the step is executed; break on a failed
\* result unless fail_fast is false
ExecutorExecute ==
    /\ InLoop("executor")
    /\ LET s == flow_config.steps[step_index]
       IN \E outcome \in StepOutcomes :
             /\ executed' = Append(executed, Reached(step_index, TRUE, outcome))
             /\ stopped' = (outcome = "failed" /\ FailFast(s, TRUE))
    /\ step_index' = step_index + 1
    /\ UNCHANGED <<flow_config, draw>>
    /\ UNCHANGED otherThanFlow

FlowNext ==
    \/ TaskSkip
    \/ TaskExecute
    \/ ExecutorExecute

SpecFlow == FlowInit /\ [][FlowNext]_vars

\* ------------------------------------------------------------- claims
IsTask == flow_config.entry = "task"
StepOf(e) == flow_config.steps[e.step]

\* the weight as the interface describes it: numbers clamped into [0,1],
\* anything that is not a number 1
ClampedWeight(w) ==
    LET v == IF w.kind = "number" THEN w.num
             ELSE IF w.kind = "str" /\ w.text \in DOMAIN FloatOf THEN FloatOf[w.text]
             ELSE One
    IN IF v < 0 THEN 0 ELSE IF v > One THEN One ELSE v

\* C26: in the per-iteration entry point, after a step with fail_fast set
\* has failed (success false) no further step of the iteration is
\* executed; a failed step without fail_fast does not end the iteration.
C26_FailFastStops ==
    IsTask
    => /\ \A i \in 1..Len(executed) :
             (executed[i].outcome = "failed" /\ StepOf(executed[i]).fail_fast = "true")
             => Len(executed) = i
       /\ \A i \in 1..Len(executed) :
             (executed[i].outcome = "failed" /\ StepOf(executed[i]).fail_fast # "true")
             => ~stopped

\* C27: in the per-iteration entry point the weight of a step, clamped
\* into [0,1] and 1 when it is not a number, decides whether the step
\* executes: always at 1 (or with no weight), never at 0.
C27_WeightDecides ==
    IsTask
    => \A i \in 1..Len(executed) :
          LET w == StepOf(executed[i]).weight
          IN /\ EffectiveWeight(w) = ClampedWeight(w)
             /\ ClampedWeight(w) = One => executed[i].ran
             /\ ClampedWeight(w) = 0 => ~executed[i].ran

\* ======================================================================
\* The retry rule of a step (FlowExecutor._should_retry_step,
\* framework/flow_executor.py) and the template engine
\* (framework/template_engine.py), on strings written out character by
\* character.
\* ======================================================================

MaxPieces == 3            \* most alternatives in the right side of a rule
MaxFragments == 2         \* most fragments a template is put together from

\* ------------------------------------------------------------- strings
IsSpace(c) == c = " "

\* str.strip(): leading and trailing whitespace removed
RECURSIVE LStrip(_)
LStrip(t) == IF t # <<>> /\ IsSpace(Head(t)) THEN LStrip(Tail(t)) ELSE t
RECURSIVE RStrip(_)
RStrip(t) ==
    IF t # <<>> /\ IsSpace(t[Len(t)]) THEN RStrip(SubSeq(t, 1, Len(t) - 1)) ELSE t
Strip_Kept(t) == t
Strip(t) == RStrip(LStrip(t))

\* t has the text sep at position i
HasAt(t, i, sep) ==
    /\ i + Len(sep) - 1 <= Len(t)
    /\ SubSeq(t, i, i + Len(sep) - 1) = sep

\* sep in t
Contains(t, sep) == \E i \in 1..(Len(t) + 1) : HasAt(t, i, sep)

\* t.split(sep): the pieces between the occurrences of sep, found from
\* the left
RECURSIVE SplitFrom(_, _, _, _)
SplitFrom(t, i, start, sep) ==
    IF i > Len(t) THEN <<SubSeq(t, start, Len(t))>>
    ELSE IF HasAt(t, i, sep)
         THEN <<SubSeq(t, start, i - 1)>>
              \o SplitFrom(t, i + Len(sep), i + Len(sep), sep)
         ELSE SplitFrom(t, i + 1, start, sep)
Split(t, sep) == SplitFrom(t, 1, 1, sep)

DigitChars == <<"0", "1", "2", "3", "4", "5", "6", "7", "8", "9">>
IsDigit(c) == \E d \in 1..Len(DigitChars) : DigitChars[d] = c
DigitOf(c) == (CHOOSE d \in 1..Len(DigitChars) : DigitChars[d] = c) - 1

\* the number written by a string of digits
RECURSIVE NumberOf(_)
NumberOf(t) ==
    IF t = <<>> THEN 0 ELSE 10 * NumberOf(SubSeq(t, 1, Len(t) - 1)) + DigitOf(t[Len(t)])

\* str() of a number that is not negative
RECURSIVE TextOf(_)
TextOf(n) ==
    IF n < 10 THEN <<DigitChars[n + 1]>>
    ELSE TextOf(n \div 10) \o <<DigitChars[(n % 10) + 1]>>

\* float(t) of the strings the rules compare: whole numbers, spaces
\* around them allowed; anything else is a ValueError
FloatOfText(t) ==
    LET digits == Strip(t)
    IN IF digits # <<>> /\ \A i \in 1..Len(digits) : IsDigit(digits[i])
       THEN [ok |-> TRUE, n |-> NumberOf(digits)]
       ELSE [ok |-> FALSE, n |-> 0]

\* ------------------------------------------------------------ the rule
\* FlowExecutor._evaluate_single_condition on two strings
EvaluateSingle(condition_type, left_value, right_value) ==
    CASE condition_type = "equals" -> left_value = right_value
      [] condition_type = "not_equals" -> left_value # right_value
      [] condition_type = "contains" -> Contains(left_value, right_value)
      [] condition_type = "not_contains" -> ~Contains(left_value, right_value)
      [] condition_type = "greater_than" ->
            /\ FloatOfText(left_value).ok
            /\ FloatOfText(right_value).ok
            /\ FloatOfText(left_value).n > FloatOfText(right_value).n
      [] condition_type = "less_than" ->
            /\ FloatOfText(left_value).ok
            /\ FloatOfText(right_value).ok
            /\ FloatOfText(left_value).n < FloatOfText(right_value).n
      [] OTHER -> FALSE

\* FlowExecutor._evaluate_condition_with_or: True at the first match
RECURSIVE EvaluateWithOr(_, _, _)
EvaluateWithOr(condition_type, left_value, right_values) ==
    IF right_values = <<>> THEN FALSE
    ELSE IF EvaluateSingle(condition_type, left_value, Head(right_values)) THEN TRUE
    ELSE EvaluateWithOr(condition_type, left_value, Tail(right_values))

\* FlowExecutor._evaluate_condition_with_and: False at the first miss
RECURSIVE EvaluateWithAnd(_, _, _)
EvaluateWithAnd(condition_type, left_value, right_values) ==
    IF right_values = <<>> THEN TRUE
    ELSE IF ~EvaluateSingle(condition_type, left_value, Head(right_values)) THEN FALSE
    ELSE EvaluateWithAnd(condition_type, left_value, Tail(right_values))

OrSign == <<"|", "|">>
AndSign == <<"&", "&">>

\* [v.strip() for v in right_value.split(sign)]
StrippedPieces(right_value, sign) ==
    LET pieces == Split(right_value, sign)
    IN [i \in 1..Len(pieces) |-> Strip(pieces[i])]

\* _should_retry_step on the rendered sides: which evaluation the right
\* side selects
EvaluateRule(condition_type, left_value, right_value) ==
    IF Contains(right_value, OrSign)
    THEN EvaluateWithOr(condition_type, left_value, StrippedPieces(right_value, OrSign))
    ELSE IF Contains(right_value, AndSign)
    THEN EvaluateWithAnd(condition_type, left_value, StrippedPieces(right_value, AndSign))
    ELSE EvaluateSingle(condition_type, left_value, right_value)

\* ------------------------------------------------------ context values
\* the names used as keys, written out
KeyK == <<"k">>
KeyU == <<"u">>
KeyL == <<"l">>
KeyN == <<"n">>
KeyResponse == <<"r", "e", "s", "p", "o", "n", "s", "e">>
KeyStatusCode == <<"s", "t", "a", "t", "u", "s", "_", "c", "o", "d", "e">>
KeyText == <<"t", "e", "x", "t">>
KeyHeaders == <<"h", "e", "a", "d", "e", "r", "s">>

\* the keys a dict is asked for, in the order dicts list them
KeyOrder == <<KeyK, KeyU, KeyL, KeyN, KeyStatusCode, KeyText, KeyHeaders, KeyResponse>>
Keys == {KeyOrder[i] : i \in 1..Len(KeyOrder)}

Absent == [kind |-> "absent"]
TextValue(t) == [kind |-> "str", text |-> t]
IntValue(n) == [kind |-> "int", n |-> n]
DictValue(entries) == [kind |-> "dict", entries |-> entries]
ListValue(xs) == [kind |-> "list", xs |-> xs]

\* {}: a dict in which every key is absent
NoEntries == [key \in Keys |-> Absent]

\* part in value
HasKey(entries, key) == key \in Keys /\ entries[key].kind # "absent"

\* ", ".join(texts)
RECURSIVE JoinWith(_, _)
JoinWith(texts, sep) ==
    IF texts = <<>> THEN <<>>
    ELSE IF Len(texts) = 1 THEN texts[1]
    ELSE texts[1] \o sep \o JoinWith(Tail(texts), sep)

\* repr() of a value inside a dict or a list
RECURSIVE ReprOf(_)
ReprOf(v) ==
    CASE v.kind = "str" -> <<"'">> \o v.text \o <<"'">>
      [] v.kind = "int" -> TextOf(v.n)
      [] v.kind = "list" ->
            <<"[">> \o JoinWith([i \in 1..Len(v.xs) |-> ReprOf(v.xs[i])], <<",", " ">>)
                    \o <<"]">>
      [] v.kind = "dict" ->
            LET present == SelectSeq(KeyOrder, LAMBDA key : HasKey(v.entries, key))
            IN <<"{">> \o JoinWith([i \in 1..Len(present) |->
                                       <<"'">> \o present[i] \o <<"'", ":", " ">>
                                       \o ReprOf(v.entries[present[i]])],
                                   <<",", " ">>)
                       \o <<"}">>

\* str() of a value
StrOf(v) == IF v.kind = "str" THEN v.text ELSE ReprOf(v)

\* ---------------------------------------------------- template engine
OpenSign == <<"{", "{">>
CloseSign == <<"}", "}">>

Placeholder_Empty(var_expr) == <<>>

\* f"{{{{{var_expr}}}}}": the token written back, var_expr stripped
Placeholder(var_expr) == OpenSign \o var_expr \o CloseSign

\* a component of a variable path: a key or a list index
NamePart(name) == [is_int |-> FALSE, n |-> 0, name |-> name]
IntPart(n) == [is_int |-> TRUE, n |-> n, name |-> <<>>]

IsQuote(c) == c = "'" \/ c = "\""
RECURSIVE StripQuotes(_)
StripQuotes(t) ==
    IF t # <<>> /\ IsQuote(Head(t)) THEN StripQuotes(Tail(t))
    ELSE IF t # <<>> /\ IsQuote(t[Len(t)]) THEN StripQuotes(SubSeq(t, 1, Len(t) - 1))
    ELSE t

\* try: int(index_str) except ValueError: index_str.strip('"\'')
IndexPart(index_str) ==
    LET t == Strip(index_str)
        signed == t # <<>> /\ Head(t) \in {"-", "+"}
        digits == IF signed THEN Tail(t) ELSE t
    IN IF digits # <<>> /\ \A i \in 1..Len(digits) : IsDigit(digits[i])
       THEN IntPart(IF signed /\ Head(t) = "-" THEN 0 - NumberOf(digits)
                    ELSE NumberOf(digits))
       ELSE NamePart(StripQuotes(index_str))

\* the position of the first c in t from i on, Len(t) + 1 when none
RECURSIVE FirstFrom(_, _, _)
FirstFrom(t, i, c) ==
    IF i > Len(t) \/ t[i] = c THEN i ELSE FirstFrom(t, i + 1, c)

\* TemplateEngine._parse_variable_path, character by character
RECURSIVE ParseFrom(_, _, _, _)
ParseFrom(var_expr, i, current, parts) ==
    LET flushed == IF current # <<>> THEN Append(parts, NamePart(current)) ELSE parts
    IN IF i > Len(var_expr) THEN flushed
       ELSE IF var_expr[i] = "." THEN ParseFrom(var_expr, i + 1, <<>>, flushed)
       ELSE IF var_expr[i] = "["
            THEN LET j == FirstFrom(var_expr, i + 1, "]")
                 IN IF j <= Len(var_expr)
                    THEN ParseFrom(var_expr, j + 1, <<>>,
                                   Append(flushed, IndexPart(SubSeq(var_expr, i + 1, j - 1))))
                    ELSE ParseFrom(var_expr, i + 1, <<>>, flushed)
       ELSE ParseFrom(var_expr, i + 1, Append(current, var_expr[i]), parts)
ParseVariablePath(var_expr) == ParseFrom(var_expr, 1, <<>>, <<>>)

\* the loop of _resolve_variable over the parts of the path
RECURSIVE WalkPath(_, _, _)
WalkPath(parts, value, var_expr) ==
    IF parts = <<>> THEN value
    ELSE LET part == Head(parts)
         IN IF part.is_int
            THEN IF value.kind = "list" /\ 0 <= part.n /\ part.n < Len(value.xs)
                 THEN WalkPath(Tail(parts), value.xs[part.n + 1], var_expr)
                 ELSE TextValue(Placeholder(var_expr))
            ELSE IF value.kind = "dict" /\ HasKey(value.entries, part.name)
                 THEN WalkPath(Tail(parts), value.entries[part.name], var_expr)
                 ELSE TextValue(Placeholder(var_expr))

\* TemplateEngine._resolve_variable
ResolveVariablePath(var_expr, ctx) ==
    IF ~Contains(var_expr, <<".">>) /\ ~Contains(var_expr, <<"[">>)
    THEN IF HasKey(ctx, var_expr) THEN ctx[var_expr]
         ELSE TextValue(Placeholder(var_expr))
    ELSE WalkPath(ParseVariablePath(var_expr), DictValue(ctx), var_expr)

NoMatch == [found |-> FALSE, run |-> <<>>, end |-> 0]

MatchAt_OneBrace(t, i) ==
    IF ~HasAt(t, i, OpenSign) THEN NoMatch
    ELSE LET j == FirstFrom(t, i + 2, "}")
         IN IF j > i + 2 /\ j <= Len(t)
            THEN [found |-> TRUE, run |-> SubSeq(t, i + 2, j - 1), end |-> j]
            ELSE NoMatch

\* variable_pattern \{\{\s*([^}]+)\s*\}\} tried at position i: two opening
\* braces, at least one character that is not a closing brace, two
\* closing braces
MatchAt(t, i) ==
    IF ~HasAt(t, i, OpenSign) THEN NoMatch
    ELSE LET j == FirstFrom(t, i + 2, "}")
         IN IF j > i + 2 /\ HasAt(t, j, CloseSign)
            THEN [found |-> TRUE, run |-> SubSeq(t, i + 2, j - 1), end |-> j + 1]
            ELSE NoMatch

\* TemplateEngine._render_string: variable_pattern.sub(replace_var, template)
RECURSIVE RenderFrom(_, _, _)
RenderFrom(t, i, ctx) ==
    IF i > Len(t) THEN <<>>
    ELSE LET m == MatchAt(t, i)
         IN IF m.found
            THEN StrOf(ResolveVariablePath(Strip(m.run), ctx)) \o RenderFrom(t, m.end + 1, ctx)
            ELSE <<t[i]>> \o RenderFrom(t, i + 1, ctx)
RenderString(t, ctx) == RenderFrom(t, 1, ctx)

\* TemplateEngine.render: strings are rendered, dicts and lists value by
\* value, anything else is handed back
RECURSIVE RenderValue(_, _)
RenderValue(template, ctx) ==
    CASE template.kind = "str" -> TextValue(RenderString(template.text, ctx))
      [] template.kind = "dict" ->
            DictValue([key \in Keys |-> RenderValue(template.entries[key], ctx)])
      [] template.kind = "list" ->
            ListValue([i \in 1..Len(template.xs) |-> RenderValue(template.xs[i], ctx)])
      [] OTHER -> template

\* ---------------------------------------------------------- skip rules
\* not value
Falsy(v) ==
    CASE v.kind = "str" -> v.text = <<>>
      [] v.kind = "int" -> v.n = 0
      [] v.kind = "list" -> v.xs = <<>>
      [] v.kind = "dict" -> \A key \in Keys : ~HasKey(v.entries, key)
      [] OTHER -> TRUE

\* float(value): a TypeError for what is neither a string nor a number
FloatOfValue(v) ==
    CASE v.kind = "str" -> FloatOfText(v.text)
      [] v.kind = "int" -> [ok |-> TRUE, n |-> v.n]
      [] OTHER -> [ok |-> FALSE, n |-> 0]

\* FlowExecutor._should_skip_step on the two sides of skip_if
EvaluateSkip(has_rule, condition_type, left, right, ctx) ==
    IF ~has_rule THEN FALSE
    ELSE LET left_value == RenderValue(left, ctx)
             right_value == RenderValue(right, ctx)
         IN CASE condition_type = "equals" -> left_value = right_value
              [] condition_type = "not_equals" -> left_value # right_value
              [] condition_type = "contains" ->
                    Contains(StrOf(left_value), StrOf(right_value))
              [] condition_type = "not_contains" ->
                    ~Contains(StrOf(left_value), StrOf(right_value))
              [] condition_type = "greater_than" ->
                    /\ FloatOfValue(left_value).ok
                    /\ FloatOfValue(right_value).ok
                    /\ FloatOfValue(left_value).n > FloatOfValue(right_value).n
              [] condition_type = "less_than" ->
                    /\ FloatOfValue(left_value).ok
                    /\ FloatOfValue(right_value).ok
                    /\ FloatOfValue(left_value).n < FloatOfValue(right_value).n
              [] condition_type = "is_empty" -> Falsy(left_value)
              [] condition_type = "is_not_empty" -> ~Falsy(left_value)
              [] OTHER -> FALSE

\* --------------------------------------------------------- retry rules
RetryStatuses == {200, 401, 403, 429}
CodeTexts == {TextOf(401), TextOf(403), TextOf(429)}
Separators == {OrSign, <<" ">> \o OrSign \o <<" ">>,
               AndSign, <<" ">> \o AndSign \o <<" ">>}

\* a right side: alternatives put together with a separator
RightSide(pieces, sep) == [pieces |-> pieces, sep |-> sep, text |-> JoinWith(pieces, sep)]
NoRight == RightSide(<<>>, <<>>)
PieceLists == UNION {[1..n -> CodeTexts] : n \in 1..MaxPieces}

\* "401 && 403 || 429"
MixedRight ==
    RightSide(<<TextOf(401) \o <<" ">> \o AndSign \o <<" ">> \o TextOf(403), TextOf(429)>>,
              <<" ">> \o OrSign \o <<" ">>)
RightSides == {RightSide(p, sep) : p \in PieceLists, sep \in Separators} \cup {MixedRight}

\* "{{ response.status_code }}"
StatusTemplate ==
    OpenSign \o <<" ">> \o KeyResponse \o <<".">> \o KeyStatusCode \o <<" ">> \o CloseSign
LeftSides == {StatusTemplate, TextOf(401), <<" ">> \o TextOf(401)}
Conditions == {"equals", "not_equals", "contains", "greater_than", "matches"}

\* self.context['response'] = {'status_code': ..., 'text': ..., 'headers': ...}
ResponseValue(status_code) ==
    DictValue([NoEntries EXCEPT ![KeyStatusCode] = IntValue(status_code),
                                ![KeyText] = TextValue(<<"o", "k">>),
                                ![KeyHeaders] = DictValue(NoEntries)])

\* ----------------------------------------------------------- templates
Fragment(kind, text, var_expr, path) ==
    [kind |-> kind, text |-> text, var_expr |-> var_expr, path |-> path]
Token(lead, var_expr, path) ==
    Fragment("token", OpenSign \o lead \o var_expr \o lead \o CloseSign, var_expr, path)
Literal(text) == Fragment("literal", text, <<>>, <<>>)
Raw(text) == Fragment("raw", text, <<>>, <<>>)

Fragments ==
    {Token(<<" ">>, KeyK, <<NamePart(KeyK)>>),
     Token(<<>>, KeyK, <<NamePart(KeyK)>>),
     Token(<<" ">>, KeyU \o <<".">> \o KeyN, <<NamePart(KeyU), NamePart(KeyN)>>),
     Token(<<" ">>, KeyU \o <<".">> \o KeyK, <<NamePart(KeyU), NamePart(KeyK)>>),
     Token(<<" ">>, KeyL \o <<"[", "0", "]">>, <<NamePart(KeyL), IntPart(0)>>),
     Token(<<" ">>, KeyL \o <<"[", "1", "]">>, <<NamePart(KeyL), IntPart(1)>>),
     Token(<<" ">>, KeyK \o <<".">> \o KeyN, <<NamePart(KeyK), NamePart(KeyN)>>),
     Token(<<" ">>, KeyU, <<NamePart(KeyU)>>),
     Literal(<<"H", "i", " ">>),
     Literal(<<" ">>),
     Literal(KeyK),
     Raw(OpenSign),
     Raw(CloseSign),
     Raw(<<"{">>),
     Raw(OpenSign \o <<" ">> \o KeyK \o <<" ", "}">>)}

FragmentLists == UNION {[1..n -> Fragments] : n \in 0..MaxFragments}
TextOfFragments(fs) == JoinWith([i \in 1..Len(fs) |-> fs[i].text], <<>>)

\* the contexts templates are rendered in
Entries(k, u, l) == [NoEntries EXCEPT ![KeyK] = k, ![KeyU] = u, ![KeyL] = l]
ListA == ListValue(<<TextValue(<<"a">>)>>)
EvalContexts ==
    {NoEntries,
     Entries(TextValue(<<"v">>), Absent, Absent),
     Entries(TextValue(OpenSign \o KeyL \o <<"[", "0", "]">> \o CloseSign), Absent, ListA),
     Entries(IntValue(5), DictValue([NoEntries EXCEPT ![KeyN] = TextValue(<<"v">>)]), ListA),
     Entries(TextValue(<<"v">>), TextValue(<<"s">>), ListValue(<<IntValue(7)>>))}
RetryContexts == {NoEntries, Entries(TextValue(<<"v">>), Absent, Absent)}

\* what is handed to the evaluator
Evaluation(kind, has_rule, condition, left, right, status_code, fragments, template) ==
    [kind |-> kind, has_rule |-> has_rule, condition |-> condition, left |-> left,
     right |-> right, status_code |-> status_code, fragments |-> fragments,
     template |-> template]
RetryEvaluations ==
    {Evaluation("retry", TRUE, c, l, r, s, <<>>, TextValue(<<>>)) :
        c \in Conditions, l \in LeftSides, r \in RightSides, s \in RetryStatuses}
    \cup {Evaluation("retry", FALSE, "", <<>>, NoRight, s, <<>>, TextValue(<<>>)) :
            s \in RetryStatuses}

\* rules on emptiness: left "", "{{ k }}" or "401", right ""
KeyTemplate == OpenSign \o <<" ">> \o KeyK \o <<" ">> \o CloseSign
EmptinessConditions == {"is_empty", "is_not_empty"}
EmptinessLefts == {<<>>, KeyTemplate, TextOf(401)}
EmptinessEvaluations ==
    {Evaluation("retry", TRUE, c, l, NoRight, s, <<>>, TextValue(<<>>)) :
        c \in EmptinessConditions, l \in EmptinessLefts, s \in RetryStatuses}
EmptinessContexts ==
    {NoEntries,
     Entries(TextValue(<<>>), Absent, Absent),
     Entries(TextValue(<<"v">>), Absent, Absent)}

\* skip_if rules: left a string, right any value of the configuration
SkipConditions ==
    {"equals", "not_equals", "contains", "not_contains", "greater_than",
     "less_than", "is_empty", "is_not_empty", "matches"}
SkipLefts == {KeyTemplate, TextOf(200), <<>>}
SkipRights == {IntValue(200), TextValue(TextOf(200)), TextValue(KeyTemplate), TextValue(TextOf(404))}
SkipRule(has_rule, condition, left, right) ==
    Evaluation("skip", has_rule, condition, left, NoRight, 0, <<>>, right)
SkipEvaluations ==
    {SkipRule(TRUE, c, l, r) : c \in SkipConditions, l \in SkipLefts, r \in SkipRights}
    \cup {SkipRule(FALSE, "", <<>>, TextValue(<<>>))}
SkipContexts ==
    {NoEntries,
     Entries(TextValue(TextOf(200)), Absent, Absent),
     Entries(IntValue(200), Absent, Absent),
     Entries(TextValue(<<>>), Absent, Absent)}

RenderEvaluations ==
    {Evaluation("render", FALSE, "", <<>>, NoRight, 0, fs, TextValue(TextOfFragments(fs))) :
        fs \in FragmentLists}
    \cup {Evaluation("render", FALSE, "", <<>>, NoRight, 0, <<f>>,
                     ListValue(<<TextValue(f.text), IntValue(5)>>)) : f \in Fragments}
    \cup {Evaluation("render", FALSE, "", <<>>, NoRight, 0, <<f>>,
                     DictValue([NoEntries EXCEPT ![KeyK] = TextValue(f.text)])) :
            f \in Fragments}

EvalInit ==
    /\ StepIdle
    /\ RespIdle
    /\ InitIdle
    /\ StoreIdle
    /\ CounterIdle
    /\ FlowIdle
    /\ \/ evaluation \in RetryEvaluations /\ render_context \in RetryContexts
       \/ evaluation \in EmptinessEvaluations /\ render_context \in EmptinessContexts
       \/ evaluation \in SkipEvaluations /\ render_context \in SkipContexts
       \/ evaluation \in RenderEvaluations /\ render_context \in EvalContexts
    /\ retry_signal = "unset"
    /\ skip_signal = "unset"
    /\ renders = <<>>

\* ------------------------------------------------------------- actions
\* FlowExecutor._should_retry_step
ShouldRetry ==
    /\ evaluation.kind = "retry"
    /\ retry_signal = "unset"
    /\ IF ~evaluation.has_rule
       THEN /\ retry_signal' = "false"
            /\ UNCHANGED render_context
       ELSE LET ctx == [render_context EXCEPT
                           ![KeyResponse] = ResponseValue(evaluation.status_code)]
                left_value == RenderString(evaluation.left, ctx)
                right_value == RenderString(evaluation.right.text, ctx)
            IN /\ render_context' = ctx
               /\ retry_signal' =
                     IF EvaluateRule(evaluation.condition, left_value, right_value)
                     THEN "true" ELSE "false"
    /\ UNCHANGED <<evaluation, skip_signal, renders>>
    /\ UNCHANGED otherThanEval

\* FlowExecutor._should_skip_step
ShouldSkip ==
    /\ evaluation.kind = "skip"
    /\ skip_signal = "unset"
    /\ skip_signal' =
          IF EvaluateSkip(evaluation.has_rule, evaluation.condition,
                          TextValue(evaluation.left), evaluation.template,
                            render_context)
          THEN "true" ELSE "false"
    /\ UNCHANGED <<evaluation, render_context, retry_signal, renders>>
    /\ UNCHANGED otherThanEval

\* TemplateEngine.render on the template
Render ==
    /\ evaluation.kind = "render"
    /\ renders = <<>>
    /\ renders' = <<RenderValue(evaluation.template, render_context)>>
    /\ UNCHANGED <<evaluation, render_context, retry_signal, skip_signal>>
    /\ UNCHANGED otherThanEval

\* TemplateEngine.render on what the call before returned
RenderAgain ==
    /\ evaluation.kind = "render"
    /\ Len(renders) = 1
    /\ renders' = Append(renders, RenderValue(renders[1], render_context))
    /\ UNCHANGED <<evaluation, render_context, retry_signal, skip_signal>>
    /\ UNCHANGED otherThanEval

EvalNext ==
    \/ ShouldRetry
    \/ ShouldSkip
    \/ Render
    \/ RenderAgain

SpecEval == EvalInit /\ [][EvalNext]_vars

\* ------------------------------------------------------------- claims
IsRetry == evaluation.kind = "retry" /\ evaluation.has_rule /\ retry_signal # "unset"
Retried == retry_signal = "true"
Pieces == evaluation.right.pieces

\* the single left value of the rule
LeftText ==
    IF evaluation.left = StatusTemplate THEN TextOf(evaluation.status_code)
    ELSE evaluation.left
Satisfies(piece) == EvaluateSingle(evaluation.condition, LeftText, piece)
IsOrRule == Len(Pieces) > 1 /\ Contains(evaluation.right.sep, OrSign)
IsAndRule == Len(Pieces) > 1 /\ Contains(evaluation.right.sep, AndSign)

\* "401 || 403 || 429" and "401 && 403"
OrExample == RightSide(<<TextOf(401), TextOf(403), TextOf(429)>>, <<" ">> \o OrSign \o <<" ">>)
AndExample == RightSide(<<TextOf(401), TextOf(403)>>, <<" ">> \o AndSign \o <<" ">>)

RenderedLeft == RenderString(evaluation.left, render_context)
IsEmptinessRule == IsRetry /\ evaluation.condition \in EmptinessConditions

\* C32: a retry rule with condition is_empty signals retry exactly when
\* its rendered left operand is empty, one with is_not_empty exactly when
\* it is not empty.
C32_EmptinessRules ==
    IsEmptinessRule
    => /\ evaluation.condition = "is_empty" => (Retried <=> RenderedLeft = <<>>)
       /\ evaluation.condition = "is_not_empty" => (Retried <=> RenderedLeft # <<>>)

IsSkip == evaluation.kind = "skip" /\ evaluation.has_rule /\ skip_signal # "unset"
Skipped == skip_signal = "true"

\* what the retry-rule evaluator answers on the operands of the skip rule
RetryAnswer ==
    EvaluateRule(evaluation.condition,
                 RenderString(evaluation.left, render_context),
                 RenderString(StrOf(evaluation.template), render_context))

\* C33: on equals and not_equals the skip_if evaluator answers as the
\* retry-rule evaluator does on the same pair of operands: both compare
\* the string forms of the rendered sides (a left rendering to "200"
\* equals a numeric right 200).
C33_SkipAgreesWithRetry ==
    (IsSkip /\ evaluation.condition \in {"equals", "not_equals"})
    => (Skipped <=> RetryAnswer)

IsRendered == evaluation.kind = "render" /\ renders # <<>>
Rendered(i) == renders[i].text

\* the value a path leads to in the context, Absent when it leads nowhere
RECURSIVE ValueAt(_, _)
ValueAt(path, value) ==
    IF path = <<>> THEN value
    ELSE LET part == Head(path)
         IN IF part.is_int /\ value.kind = "list" /\ part.n \in 0..(Len(value.xs) - 1)
            THEN ValueAt(Tail(path), value.xs[part.n + 1])
            ELSE IF ~part.is_int /\ value.kind = "dict"
                    /\ value.entries[part.name].kind # "absent"
            THEN ValueAt(Tail(path), value.entries[part.name])
            ELSE Absent

\* what a fragment of the template becomes: literal text itself, a token
\* its value, a token that leads nowhere the token without its spaces
Resolved(f) ==
    LET value == ValueAt(f.path, DictValue(render_context))
    IN IF f.kind # "token" THEN f.text
       ELSE IF value.kind = "absent" THEN OpenSign \o f.var_expr \o CloseSign
       ELSE StrOf(value)
IsComposed == \A i \in 1..Len(evaluation.fragments) : evaluation.fragments[i].kind # "raw"

\* C29: resolution never fails: a token whose key, nested key or index
\* is missing, or that asks a property of a non-container, stays in the
\* result as "{{expr}}" without the inner spaces, while the literal text
\* around it and the other tokens are resolved as usual.
C29_MissingKept ==
    IsRendered
    => /\ renders[1].kind = evaluation.template.kind
       /\ (evaluation.template.kind = "str" /\ IsComposed)
          => Rendered(1)
               = JoinWith([i \in 1..Len(evaluation.fragments) |->
                              Resolved(evaluation.fragments[i])], <<>>)

C29_Witness ==
    /\ evaluation.fragments = <<Literal(<<"H", "i", " ">>), Token(<<" ">>, KeyK, <<NamePart(KeyK)>>)>>
    /\ render_context = NoEntries
    /\ renders = <<TextValue(<<"H", "i", " ", "{", "{", "k", "}", "}">>)>>

\* a token: two opening braces, at least one character, none of them a
\* closing brace, two closing braces
HasToken(t) ==
    \E i, j \in 1..Len(t) :
        /\ HasAt(t, i, OpenSign)
        /\ HasAt(t, j, CloseSign)
        /\ j > i + 2
        /\ \A m \in (i + 2)..(j - 1) : t[m] # "}"

\* C30: rendering a rendered string in which no token is left gives the
\* same string again, and a string without a token is returned unchanged.
C30_Idempotent ==
    (IsRendered /\ evaluation.template.kind = "str")
    => /\ (Len(renders) = 2 /\ ~HasToken(Rendered(1))) => renders[2] = renders[1]
       /\ ~HasToken(evaluation.template.text) => renders[1] = evaluation.template

C30_Witness ==
    /\ evaluation.fragments = <<Literal(<<"H", "i", " ">>), Token(<<" ">>, KeyK, <<NamePart(KeyK)>>)>>
    /\ render_context[KeyK] = TextValue(<<"v">>)
    /\ renders = <<TextValue(<<"H", "i", " ", "v">>), TextValue(<<"H", "i", " ", "v">>)>>

\* ======================================================================
\* SpecTransforms: FlowExecutor._apply_transforms on one transform list,
\* one turn of its loop at a time.
\* ======================================================================
MaxListed == 3            \* most transforms in the list

UTemplate == OpenSign \o <<" ">> \o KeyU \o <<" ">> \o CloseSign

\* a transform of the list; NoOutput stands for an output key the entry lacks
NoOutput == <<>>
TransformEntry(type, input, choices, output) ==
    [type |-> type, input |-> input, choices |-> choices, output |-> output]
ChoiceTemplates == {<<"a">>, KeyTemplate, UTemplate}
ListedTransforms ==
    {TransformEntry("random_choice", <<>>, <<c>>, o) :
        c \in ChoiceTemplates, o \in {KeyK, KeyU}}
    \cup {TransformEntry("random_choice", KeyTemplate, <<UTemplate>>, KeyK),
          TransformEntry("random_choice", KeyTemplate, <<KeyTemplate>>, KeyU),
          TransformEntry("random_choice", <<>>, <<<<"a">>, <<"b">>>>, KeyK),
          TransformEntry("random_choice", <<>>, <<<<"a">>>>, NoOutput),
          TransformEntry("random_choice", <<>>, <<>>, KeyK),
          TransformEntry("nosuch", <<>>, <<<<"a">>>>, KeyK),
          TransformEntry("", <<>>, <<<<"a">>>>, KeyK)}
TransformLists == UNION {[1..n -> ListedTransforms] : n \in 0..MaxListed}
TransformContexts == {NoEntries, Entries(TextValue(<<"v">>), Absent, Absent)}

\* config = {choices: [...]}
ConfigOf(transform) ==
    ListValue([i \in 1..Len(transform.choices) |-> TextValue(transform.choices[i])])

TemplateContext_AtStart(at_start, now) == at_start

\* the context the templates of a transform are rendered against:
\* self.context, as it is when the loop reaches the transform
TemplateContext(at_start, now) == now

\* what became of one transform of the list
Applied(kind, input_data, rendered_config, value) ==
    [kind |-> kind, input_data |-> input_data, rendered_config |-> rendered_config,
     value |-> value]
NotApplied == Applied("no type", TextValue(<<>>), ListValue(<<>>), Absent)

\* plugin_registry.execute_plugin(type, input_data, rendered_config, context):
\* the values the call may return; none when it raises
PluginResults(type, rendered_config) ==
    IF type = "random_choice"
    THEN {rendered_config.xs[i] : i \in 1..Len(rendered_config.xs)}
    ELSE {}

TransformsInit ==
    /\ StepIdle
    /\ RespIdle
    /\ InitIdle
    /\ StoreIdle
    /\ CounterIdle
    /\ FlowIdle
    /\ \E ts \in TransformLists, ctx \in TransformContexts :
          /\ evaluation = [kind |-> "transforms", transforms |-> ts, at_start |-> ctx]
          /\ render_context = ctx
    /\ retry_signal = "unset"
    /\ skip_signal = "unset"
    /\ renders = <<>>

\* the transform the loop is at
Turn == Len(renders) + 1

\* if not transform_type: continue
TransformWithoutType ==
    /\ Turn <= Len(evaluation.transforms)
    /\ evaluation.transforms[Turn].type = ""
    /\ renders' = Append(renders, NotApplied)
    /\ UNCHANGED <<evaluation, render_context, retry_signal, skip_signal>>
    /\ UNCHANGED otherThanEval

\* one turn of the loop: render input and config, call the plugin, write
\* the output; an exception of the plugin is logged
ApplyTransform ==
    /\ Turn <= Len(evaluation.transforms)
    /\ evaluation.transforms[Turn].type # ""
    /\ LET transform == evaluation.transforms[Turn]
           ctx == TemplateContext(evaluation.at_start, render_context)
           input_data == RenderValue(TextValue(transform.input), ctx)
           rendered_config == RenderValue(ConfigOf(transform), ctx)
           results == PluginResults(transform.type, rendered_config)
       IN IF results = {}
          THEN /\ renders' = Append(renders,
                                    Applied("failed", input_data, rendered_config, Absent))
               /\ UNCHANGED render_context
          ELSE \E value \in results :
                  /\ renders' = Append(renders,
                                       Applied("ok", input_data, rendered_config, value))
                  /\ render_context' =
                        IF transform.output # NoOutput
                        THEN [render_context EXCEPT ![transform.output] = value]
                        ELSE render_context
    /\ UNCHANGED <<evaluation, retry_signal, skip_signal>>
    /\ UNCHANGED otherThanEval

TransformsNext ==
    \/ TransformWithoutType
    \/ ApplyTransform

SpecTransforms == TransformsInit /\ [][TransformsNext]_vars

\* ------------------------------------------------------------- claims
\* the transform at place i wrote its output
Wrote(i) == renders[i].kind = "ok" /\ evaluation.transforms[i].output # NoOutput

\* the context with the outputs of the first n transforms written, in
\* list order
RECURSIVE ContextAfter(_)
ContextAfter(n) ==
    IF n = 0 THEN evaluation.at_start
    ELSE IF Wrote(n)
         THEN [ContextAfter(n - 1) EXCEPT ![evaluation.transforms[n].output] =
                                             renders[n].value]
         ELSE ContextAfter(n - 1)

\* C35: the transforms of a list are applied in list order, and the input
\* and the config of each are rendered against the context as it is at
\* that moment: the outputs of all the transforms before it are in it, no
\* output of a later one is.
C35_TransformsInOrder ==
    /\ [](evaluation.kind = "transforms"
          => /\ Len(renders) <= Len(evaluation.transforms)
             /\ render_context = ContextAfter(Len(renders))
             /\ \A j \in 1..Len(renders) :
                   renders[j].kind # "no type"
                   => /\ renders[j].input_data
                           = RenderValue(TextValue(evaluation.transforms[j].input),
                                         ContextAfter(j - 1))
                      /\ renders[j].rendered_config
                           = RenderValue(ConfigOf(evaluation.transforms[j]),
                                         ContextAfter(j - 1)))
    /\ [][Len(renders') = Len(renders) + 1
            /\ \A j \in 1..Len(renders) : renders'[j] = renders[j]]_vars

\* the first transform writes u = "a", the second reads {{ u }} and k
\* is still unwritten for it, the third reads the k the second wrote
C35_Witness ==
    /\ evaluation.kind = "transforms"
    /\ evaluation.at_start = NoEntries
    /\ Len(renders) = 3
    /\ evaluation.transforms[1] = TransformEntry("random_choice", <<>>, <<<<"a">>>>, KeyU)
    /\ evaluation.transforms[2] = TransformEntry("random_choice", KeyTemplate, <<UTemplate>>, KeyK)
    /\ evaluation.transforms[3] = TransformEntry("random_choice", KeyTemplate, <<KeyTemplate>>, KeyU)
    /\ renders[2].input_data = TextValue(Placeholder(KeyK))
    /\ renders[2].rendered_config = ListValue(<<TextValue(<<"a">>)>>)
    /\ renders[3].input_data = TextValue(<<"a">>)
    /\ render_context[KeyU] = TextValue(<<"a">>)

\* ======================================================================
\* SpecSelf: one invocation of _execute_step on a step whose pre-hooks and
\* retry action name the step itself, or a step that names it in turn.
\* ======================================================================
\* the names hooks and actions are drawn from: the step itself, Login
\* (whose own pre_request names Transfer), a name no step has
SelfHooks == {NamedHook("Transfer"), NamedHook("Login"), NamedHook("Missing")}
SelfRules ==
    {[present |-> TRUE, condition |-> "equals", right |-> 401,
      action |-> a, has_max_retries |-> FALSE, max_retries |-> 0] :
        a \in {"", "Login", "Transfer"}}
    \cup
    {[present |-> TRUE, condition |-> "equals", right |-> 401,
      action |-> a, has_max_retries |-> TRUE, max_retries |-> n] :
        a \in {"", "Login", "Transfer"}, n \in 0..MaxRetries}
SelfSteps ==
    [name : {"Transfer"},
     pre_request : SeqsUpTo(SelfHooks, MaxHooks + 1),
     pre_transforms : {<<>>},
     skip_if : {NoSkipIf},
     retry_on : {NoRetryOn} \cup SelfRules,
     validate : {NoStatus, 200},
     has_extract : {TRUE},
     post_transforms : {<<>>}]

\* what _find_step_by_name hands back: of the step found, the parts
\* _make_request, _extract_variables and _validate_response read
ReferencedStep(n, s) ==
    IF n = s.name
    THEN [name |-> s.name, validate |-> s.validate, has_extract |-> s.has_extract]
    ELSE LoginStep

NextHook_Reenters(s, n, at) == IF n = s.name THEN 1 ELSE at + 1

\* the pre-hook the loop of _execute_pre_requests goes to after the one
\* at place `at', which names n: the next of the list
NextHook(s, n, at) == at + 1

InitSelf ==
    /\ step \in SelfSteps
    /\ pc = IF step.pre_request = <<>> THEN "pre_transforms" ELSE "pre_request"
    /\ hook = 1
    /\ retry_count = 0
    /\ response = NoStatus
    /\ context = [v |-> Unset, code |-> NoStatus, last_response |-> NoStatus, response |-> NoStatus]
    /\ step_result = [name |-> step.name, success |-> TRUE, status_code |-> NoStatus,
                      error |-> NoError, skipped |-> FALSE]
    /\ trace = <<>>
    /\ RespIdle
    /\ InitIdle
    /\ StoreIdle
    /\ CounterIdle
    /\ FlowIdle
    /\ EvalIdle

\* one named entry of _execute_pre_requests: find the step, call it,
\* extract, validate
ExecuteReferencedHook ==
    /\ pc = "pre_request"
    /\ hook <= Len(step.pre_request)
    /\ LET h == step.pre_request[hook]
           next_hook == NextHook(step, h.name, hook)
           next_pc == IF next_hook > Len(step.pre_request)
                      THEN "pre_transforms" ELSE "pre_request"
       IN IF ~FindStepByName(h.name)
          THEN /\ pc' = next_pc
               /\ hook' = next_hook
               /\ UNCHANGED <<context, step_result, trace>>
          ELSE \E status \in Statuses :
               LET referenced_step == ReferencedStep(h.name, step)
                   err == ValidateResponse(referenced_step.validate, status)
               IN /\ context' = ExtractVariables(referenced_step.has_extract, status,
                                                 MakeRequest(status, context))
                  /\ trace' = Append(trace, Event("pre_request", h.name, status,
                                                  referenced_step.validate))
                  /\ hook' = next_hook
                  /\ IF err # NoError
                     THEN /\ step_result' = Failed(step_result, err)
                          /\ pc' = "done"
                     ELSE /\ step_result' = step_result
                          /\ pc' = next_pc
    /\ UNCHANGED <<step, retry_count, response>>
    /\ UNCHANGED otherThanStep

\* the action step of the retry rule: find it, call it, extract, validate
ExecuteReferencedAction ==
    /\ pc = "action"
    /\ \E status \in Statuses :
        LET referenced_step == ReferencedStep(step.retry_on.action, step)
            err == ValidateResponse(referenced_step.validate, status)
        IN /\ context' = ExtractVariables(referenced_step.has_extract, status,
                                          MakeRequest(status, context))
           /\ trace' = Append(trace, Event("action", step.retry_on.action, status,
                                           referenced_step.validate))
           /\ IF err # NoError
              THEN /\ step_result' = Failed(step_result, err)
                   /\ pc' = "done"
              ELSE /\ step_result' = step_result
                   /\ pc' = "attempt"
    /\ UNCHANGED <<step, hook, retry_count, response>>
    /\ UNCHANGED otherThanStep

SelfNext ==
    \/ ExecuteReferencedHook
    \/ ApplyPreTransforms
    \/ SkipCheck
    \/ Attempt
    \/ ExecuteReferencedAction
    \/ ValidateFinal
    \/ ApplyPostTransforms

\* every HTTP call returns, and the invocation goes on when it has
SpecSelf == InitSelf /\ [][SelfNext]_vars /\ WF_vars(SelfNext)

\* ------------------------------------------------------------- claims
NumHooks == Cardinality(Indices("pre_request"))
\* N - 1, no action where there is no attempt
MostActions == IF MaxRetriesOf(step) >= 1 THEN MaxRetriesOf(step) - 1 ELSE 0

\* C38: a step invocation ends once every HTTP call has returned, with at
\* most P calls of pre-hooks, N attempts and N-1 action calls (P the
\* pre-hooks listed, N = max_retries), also when the step names itself,
\* or a step naming it, as pre-hook or retry action: a referenced step is
\* one HTTP call, made before the step's own transforms and attempts for
\* a pre-hook and between two attempts for an action.
C38_SelfReferenceBounded ==
    /\ [](/\ NumHooks <= Len(step.pre_request)
          /\ NumAttempts <= MaxRetriesOf(step)
          /\ NumActions <= MostActions
          /\ \A i \in Indices("pre_request") : i <= Len(step.pre_request)
          /\ \A i \in Indices("action") :
                /\ i > 1
                /\ trace[i - 1].kind = "attempt"
                /\ i < Len(trace) => trace[i + 1].kind = "attempt")
    /\ <>(pc = "done")

\* the step is its own pre-hook twice and its own retry action, and every
\* call the bound allows has been made
C38_Witness ==
    /\ pc = "done"
    /\ step.pre_request = <<NamedHook("Transfer"), NamedHook("Transfer")>>
    /\ step.retry_on.action = "Transfer"
    /\ step.retry_on.has_max_retries
    /\ step.retry_on.max_retries = 2
    /\ NumHooks = 2
    /\ NumAttempts = 2
    /\ NumActions = 1

\* ======================================================================
\* SpecBarrier: the start-up of the actors (as in SpecInit) with init
\* steps that may fail, every actor scheduled again and again.
\* ======================================================================
InitStepFails_Raises(a) ==
    /\ upc[a] = "init"
    /\ init_log' = Append(init_log, LogEntry(a, cursor[a].id, cursor[a].step))
    /\ init_lock' = IF init_lock = a THEN 0 ELSE init_lock
    /\ upc' = [upc EXCEPT ![a] = "failed"]
    /\ UNCHANGED <<config, init_completed, shared_context, cfg_list, executor, cursor,
                   user_context, heap, mutations>>
    /\ UNCHANGED otherThanInit

\* user_flow_executor._execute_step(step, is_init=True) on a step that
\* fails: _execute_step catches the exception and returns a result with
\* success false, which on_start does not read; the loops go on
InitStepFails(a) ==
    /\ upc[a] = "init"
    /\ LET c == cursor[a]
       IN /\ init_log' = Append(init_log, LogEntry(a, c.id, c.step))
          /\ IF c.step < Len(config.init)
             THEN /\ cursor' = [cursor EXCEPT ![a] = [id |-> c.id, step |-> c.step + 1]]
                  /\ UNCHANGED <<upc, executor>>
             ELSE IF config.has_list_var /\ c.id < config.num_ids
             THEN /\ cursor' = [cursor EXCEPT ![a] = [id |-> c.id + 1, step |-> 1]]
                  /\ executor' = [executor EXCEPT ![a] = NewExecutor(a)]
                  /\ UNCHANGED upc
             ELSE /\ upc' = [upc EXCEPT ![a] = "publish"]
                  /\ UNCHANGED <<cursor, executor>>
    /\ UNCHANGED <<config, init_lock, init_completed, shared_context, cfg_list,
                   user_context, heap, mutations>>
    /\ UNCHANGED otherThanInit

\* what actor a may do next, up to the end of on_start
ActorNext(a) ==
    \/ LoadConfig(a)
    \/ Acquire(a)
    \/ CheckCompleted(a)
    \/ InitStep(a)
    \/ InitStepFails(a)
    \/ Publish(a)
    \/ Complete(a)
    \/ Release(a)
    \/ CopySnapshot(a)
    \/ OwnInit(a)

BarrierNext == \E a \in Actors : ActorNext(a)

\* every thread that can run does run in the end
SpecBarrier ==
    InitInit /\ [][BarrierNext]_vars /\ \A a \in Actors : WF_vars(ActorNext(a))

\* ------------------------------------------------------------- claims
\* the list under init_list_var is empty: on_start raises ValueError
EmptyList == config.has_list_var /\ config.num_ids = 0
Started(a) == upc[a] \in {"ready", "failed"}

\* C39: no actor waits at the barrier for ever. An actor whose shared
\* initialization raises leaves the lock free and the completed flag
\* unset, and an actor that enters with the flag unset performs the
\* initialization; the flag once set stays set, and it is set also when
\* init steps fail.
C39_BarrierNeverBlocks ==
    /\ \A a \in Actors : <>Started(a)
    /\ <>(~config.run_init_once \/ EmptyList \/ init_completed)
    /\ [](\A a \in Actors :
            /\ upc[a] = "failed" => (EmptyList /\ init_lock # a /\ ~init_completed)
            /\ upc[a] \in {"copy", "ready"} => (config.run_init_once => init_completed))
    /\ [][/\ init_completed => init_completed'
          /\ \A a \in Actors :
                /\ (upc[a] # "failed" /\ upc'[a] = "failed")
                   => (init_lock' = 0 /\ ~init_completed')
                /\ (upc[a] = "check" /\ upc'[a] # "check" /\ ~init_completed)
                   => upc'[a] \in {"init", "publish", "failed"}]_vars

\* the only init step failed for the only identifier: the flag is set,
\* the snapshot holds nothing of the step, and both actors have started
C39_Witness ==
    /\ config.run_init_once
    /\ config.has_list_var
    /\ config.num_ids = 1
    /\ config.init = <<"scratch">>
    /\ init_completed
    /\ Cardinality(StepRuns) = 1
    /\ shared_context["_tmp"] = 0
    /\ \A a \in Actors : upc[a] = "ready"
====
